---- MODULE Spec2Model ----
(***************************************************************************)
(* opactx: the builtin transform engine (transforms/builtin.py), the build *)
(* driver's normalize stage (core/build.py) and the schema DSL compiler    *)
(* (schema/dsl.py), as state machines.                                     *)
(*                                                                         *)
(* JSON values are tagged records: S(v) a scalar, M(f) a mapping (a dict,  *)
(* f a function from keys to values), L(q) a list, NULL.  Python objects   *)
(* that can be shared live in `heap`; Ref(id) is a reference to one.       *)
(***************************************************************************)
EXTENDS Integers, Sequences, FiniteSets, TLC

VARIABLES
    heap,      \* object id -> dict content: the ambient intent / sources dicts and the trees
    cur,       \* id of the tree object the pipeline currently holds
    hist,      \* names of the builtin steps applied so far
    last,      \* the last apply call: options, input/output object, error, heap before it
    bpc,       \* build_events: position of the generator
    bcfg,      \* build_events: the loaded configuration (transform steps, schema)
    events,    \* build_events: the events yielded so far
    canonical, \* build_events: the normalized context
    bundle,    \* build_events: content of data.json, or NONE
    doc,       \* compile_context_schema: the DSL document
    dpc,       \* compile_context_schema: position
    dfs,       \* _validate_references: visit_state, stack, frames of the depth-first search
    result     \* compile_context_schema: the compiled schema or the raised error

vars == <<heap, cur, hist, last, bpc, bcfg, events, canonical, bundle, doc, dpc, dfs, result>>
engineVars == <<heap, cur, hist, last>>
buildVars == <<bpc, bcfg, events, canonical, bundle>>
dslVars == <<doc, dpc, dfs, result>>

-----------------------------------------------------------------------------
(* Values *)

E == << >>
NONE == [none |-> TRUE]
Some(x) == [some |-> x]
IsNone(o) == DOMAIN o = {"none"}
MISSING == [missing |-> TRUE]
NULL == [null |-> TRUE]
S(v) == [s |-> v]
\* a number and a boolean (True and 1 are different values of the tree)
N(v) == [n |-> v]
B(v) == [b |-> v]
\* the float of integral value v (1.0 is F(1))
F(v) == [f |-> v]
M(f) == [m |-> f]
L(q) == [l |-> q]
Ref(id) == [ref |-> id]

IsMap(v) == DOMAIN v = {"m"}
IsList(v) == DOMAIN v = {"l"}
IsScalar(v) == DOMAIN v = {"s"}
IsRef(v) == DOMAIN v = {"ref"}
IsNumber(v) == DOMAIN v = {"n"}
IsBool(v) == DOMAIN v = {"b"}
IsFloat(v) == DOMAIN v = {"f"}

Put(f, k, v) == [x \in (DOMAIN f) \cup {k} |-> IF x = k THEN v ELSE f[x]]
Remove(f, k) == [x \in (DOMAIN f) \ {k} |-> f[x]]
Map1(k, v) == Put(E, k, v)
Map2(k1, v1, k2, v2) == Put(Map1(k1, v1), k2, v2)

\* copy.deepcopy: the copy shares nothing with the heap
RECURSIVE _clone(_, _)
_clone(h, v) ==
    IF IsRef(v) THEN M([k \in DOMAIN h[v.ref] |-> _clone(h, h[v.ref][k])])
    ELSE IF IsMap(v) THEN M([k \in DOMAIN v.m |-> _clone(h, v.m[k])])
    ELSE IF IsList(v) THEN L([i \in DOMAIN v.l |-> _clone(h, v.l[i])])
    ELSE v

\* the content of a value as a caller observes it (references followed)
Content(h, v) == _clone(h, v)

\* isinstance(v, dict): a shared object is always a dict
IsDict(v) == IsRef(v) \/ IsMap(v)
DictOf(h, v) == IF IsRef(v) THEN h[v.ref] ELSE v.m

-----------------------------------------------------------------------------
(* Paths.  A path string is a sequence of tokens: "." or a dot-free name.  *)

DOT == "."
RECURSIVE Segments(_, _)
\* str.split("."): acc is the segment being read ("" when empty)
Segments(toks, acc) ==
    IF toks = <<>> THEN <<acc>>
    ELSE IF Head(toks) = DOT THEN <<acc>> \o Segments(Tail(toks), "")
    ELSE Segments(Tail(toks), Head(toks))

OkPath(parts) == [ok |-> TRUE, parts |-> parts]
BadPath == [ok |-> FALSE, parts |-> <<>>]

_parse_context_path(toks) ==
    IF toks = <<"context">> THEN OkPath(<<>>)
    ELSE IF Len(toks) >= 2 /\ toks[1] = "context" /\ toks[2] = DOT THEN
        LET text == SubSeq(toks, 3, Len(toks)) IN
        IF text = <<>> THEN OkPath(<<>>)
        ELSE LET parts == Segments(text, "") IN
             IF \E i \in DOMAIN parts : parts[i] = "" THEN BadPath ELSE OkPath(parts)
    ELSE BadPath

RECURSIVE Dotted(_)
Dotted(parts) == IF parts = <<>> THEN <<>> ELSE <<DOT, Head(parts)>> \o Dotted(Tail(parts))
\* the path string "context.a.b" of the keys <<"a", "b">>
CtxPath(parts) == <<"context">> \o Dotted(parts)

-----------------------------------------------------------------------------
(* Tree access.  `data` is the id of a tree object.                         *)

RECURSIVE GetIn(_, _, _)
GetIn(h, v, path) ==
    IF path = <<>> THEN v
    ELSE IF ~IsDict(v) \/ Head(path) \notin DOMAIN DictOf(h, v) THEN MISSING
    ELSE GetIn(h, DictOf(h, v)[Head(path)], Tail(path))

_get_context_value(h, data, path) == GetIn(h, Ref(data), path)

RECURSIVE SetInline(_, _, _)
SetInline(f, path, cv) ==
    IF Len(path) = 1 THEN Put(f, path[1], cv)
    ELSE LET part == path[1]
             nxt == IF part \in DOMAIN f /\ IsMap(f[part]) THEN f[part].m ELSE E
         IN Put(f, part, M(SetInline(nxt, Tail(path), cv)))

RECURSIVE SetObj(_, _, _, _)
SetObj(h, id, path, cv) ==
    LET f == h[id]
        part == path[1]
    IN IF Len(path) > 1 /\ part \in DOMAIN f /\ IsRef(f[part])
       THEN SetObj(h, f[part].ref, Tail(path), cv)
       ELSE [h EXCEPT ![id] = SetInline(f, path, cv)]

Ok(h) == [h |-> h, err |-> ""]
Raise(h, msg) == [h |-> h, err |-> msg]

_set_context_value(h, data, path, value) ==
    IF path = <<>> THEN
        IF ~IsDict(value) THEN Raise(h, "context root replacement must be an object.")
        ELSE Ok([h EXCEPT ![data] = _clone(h, value).m])
    ELSE Ok(SetObj(h, data, path, _clone(h, value)))

RECURSIVE PopInline(_, _)
PopInline(f, path) ==
    LET part == path[1] IN
    IF part \notin DOMAIN f THEN [f |-> f, val |-> MISSING]
    ELSE IF Len(path) = 1 THEN [f |-> Remove(f, part), val |-> f[part]]
    ELSE IF ~IsMap(f[part]) THEN [f |-> f, val |-> MISSING]
    ELSE LET r == PopInline(f[part].m, Tail(path))
         IN [f |-> Put(f, part, M(r.f)), val |-> r.val]

RECURSIVE PopObj(_, _, _)
PopObj(h, id, path) ==
    LET f == h[id]
        part == path[1]
    IN IF Len(path) > 1 /\ part \in DOMAIN f /\ IsRef(f[part])
       THEN PopObj(h, f[part].ref, Tail(path))
       ELSE LET r == PopInline(f, path)
            IN [h |-> [h EXCEPT ![id] = r.f], val |-> r.val]

\* a read where a pop is meant: the value is returned and stays in the tree
ReadContextValue(h, data, path) ==
    [h |-> h, val |-> IF path = <<>> THEN MISSING ELSE GetIn(h, Ref(data), path)]

_pop_context_value(h, data, path) ==
    IF path = <<>> THEN [h |-> h, val |-> MISSING] ELSE PopObj(h, data, path)

RECURSIVE DeepMergeIncomingWins(_, _)
DeepMergeIncomingWins(base, incoming) ==
    IF IsMap(base) /\ IsMap(incoming) THEN
        M([k \in DOMAIN base.m \cup DOMAIN incoming.m |->
            IF k \notin DOMAIN incoming.m THEN base.m[k]
            ELSE IF k \in DOMAIN base.m THEN DeepMergeIncomingWins(base.m[k], incoming.m[k])
            ELSE incoming.m[k]])
    ELSE incoming

\* the merge the other way round: on a collision the value of base is kept
RECURSIVE DeepMergeBaseWins(_, _)
DeepMergeBaseWins(base, incoming) ==
    IF IsMap(base) /\ IsMap(incoming) THEN
        M([k \in DOMAIN base.m \cup DOMAIN incoming.m |->
            IF k \notin DOMAIN base.m THEN incoming.m[k]
            ELSE IF k \in DOMAIN incoming.m THEN DeepMergeBaseWins(base.m[k], incoming.m[k])
            ELSE base.m[k]])
    ELSE base

\* _deep_merge on cloned operands: the result shares nothing with its inputs
_deep_merge(base, incoming) == DeepMergeIncomingWins(base, incoming)

-----------------------------------------------------------------------------
(* The builtin transforms.  `self` is a BuiltinTransform instance.          *)

BUILTIN_TRANSFORMS ==
    {"canonicalize", "mount", "merge", "pick", "rename", "coerce", "defaults",
     "validate_schema", "ref_resolve", "sort_stable", "dedupe"}

is_builtin_transform(name) == name \in BUILTIN_TRANSFORMS

\* `given or {}`: None and an empty dict both become a new private dict
OrEmpty(h, given) == IF IsNone(given) \/ DOMAIN DictOf(h, given) = {} THEN M(E) ELSE given

\* BuiltinTransform.__init__
\* `transform_name or "canonicalize"`: None and the empty string both give way
\* to the default; schema_path is the keyword of that name, when the caller gave it
BuiltinTransform(h, transform_name, intent, sources, options) ==
    [transform_name |-> IF IsNone(transform_name) \/ transform_name.some = ""
                        THEN "canonicalize" ELSE transform_name.some,
     intent |-> OrEmpty(h, intent),
     sources |-> OrEmpty(h, sources),
     options |-> options,
     schema_path |-> IF "schema_path" \in DOMAIN options THEN options.schema_path ELSE NONE]

DictGet(h, d, key, default) ==
    IF key \in DOMAIN DictOf(h, d) THEN DictOf(h, d)[key] ELSE default

\* the dict canonicalize returns: its values are the caller's objects, not copies
canonicalize(h, intent, sources) ==
    [k \in {"standards", "exceptions", "sources"} |->
        IF k = "sources" THEN sources ELSE DictGet(h, intent, k, M(E))]

\* str(x).strip().lower() on the strategy strings used
StripLower(text) ==
    CASE text = " Replace " -> "replace"
      [] text = "MERGE" -> "merge"
      [] OTHER -> text

_resolve_source_value(h, data, sources, source_id) ==
    IF source_id \in DOMAIN DictOf(h, sources) THEN _clone(h, DictOf(h, sources)[source_id])
    ELSE LET context_sources == DictGet(h, Ref(data), "sources", NULL) IN
         IF IsDict(context_sources) /\ source_id \in DOMAIN DictOf(h, context_sources)
         THEN _clone(h, DictOf(h, context_sources)[source_id])
         ELSE MISSING

_mount(h, data, options, self) ==
    IF options.source_id = "" THEN Raise(h, "Missing required option: source_id")
    ELSE IF options.target = <<>> THEN Raise(h, "Missing required option: target")
    ELSE LET target == _parse_context_path(options.target) IN
    IF ~target.ok THEN Raise(h, "Path must start with 'context'")
    ELSE LET strategy == IF IsNone(options.strategy) THEN "merge"
                         ELSE StripLower(options.strategy.some)
             source_value == _resolve_source_value(h, data, self.sources, options.source_id)
         IN
    IF source_value = MISSING THEN Raise(h, "mount source not found")
    ELSE LET existing == _get_context_value(h, data, target.parts) IN
    IF existing = MISSING THEN _set_context_value(h, data, target.parts, source_value)
    ELSE IF strategy \in {"merge", "deep"} THEN
        _set_context_value(h, data, target.parts,
                           _deep_merge(_clone(h, existing), source_value))
    ELSE IF strategy = "replace" THEN _set_context_value(h, data, target.parts, source_value)
    ELSE Raise(h, "mount strategy must be one of: merge, deep, replace.")

\* _iter_default_assignments: with.values, else with.rules, else with.path + with.value
_iter_default_assignments(options) ==
    IF ~IsNone(options.values) THEN [err |-> "", list |-> options.values.some]
    ELSE IF ~IsNone(options.rules) THEN
        LET rules == options.rules.some IN
        IF \E i \in DOMAIN rules : rules[i][1] = <<>>
        THEN [err |-> "Missing required option: path", list |-> <<>>]
        ELSE IF \E i \in DOMAIN rules : IsNone(rules[i][2])
        THEN [err |-> "defaults rule missing key: value", list |-> <<>>]
        ELSE [err |-> "", list |-> rules]
    ELSE IF ~IsNone(options.path) /\ ~IsNone(options.value) THEN
        IF options.path.some = <<>>
        THEN [err |-> "Missing required option: path", list |-> <<>>]
        ELSE [err |-> "", list |-> <<<<options.path.some, options.value>>>>]
    ELSE [err |-> "", list |-> <<>>]

RECURSIVE DefaultsLoop(_, _, _)
DefaultsLoop(h, data, assignments) ==
    IF assignments = <<>> THEN Ok(h)
    ELSE LET path == _parse_context_path(assignments[1][1]) IN
         IF ~path.ok THEN Raise(h, "Invalid context path")
         ELSE LET current == _get_context_value(h, data, path.parts)
                  res == IF current = MISSING
                         THEN _set_context_value(h, data, path.parts, assignments[1][2])
                         ELSE Ok(h)
              IN IF res.err # "" THEN res ELSE DefaultsLoop(res.h, data, Tail(assignments))

_defaults(h, data, options, self) ==
    LET assignments == _iter_default_assignments(options) IN
    IF assignments.err # "" THEN Raise(h, assignments.err)
    ELSE IF assignments.list = <<>>
    THEN Raise(h, "defaults requires with.values, with.rules, or with.path + with.value.")
    ELSE DefaultsLoop(h, data, assignments.list)

\* the loop of _rename: each move acts on the tree as soon as it is reached
RECURSIVE RenameLoop(_, _, _, _)
RenameLoop(h, data, moves, default_ignore_missing) ==
    IF moves = <<>> THEN Ok(h)
    ELSE LET move == moves[1] IN
         IF move.from = <<>> THEN Raise(h, "Missing required option: from")
         ELSE IF move.to = <<>> THEN Raise(h, "Missing required option: to")
         ELSE LET source == _parse_context_path(move.from)
                  target == _parse_context_path(move.to)
                  ignore_missing == IF IsNone(move.ignore_missing) THEN default_ignore_missing
                                    ELSE move.ignore_missing.some
              IN
         IF ~source.ok \/ ~target.ok THEN Raise(h, "Path must start with 'context'")
         ELSE LET moved == _pop_context_value(h, data, source.parts) IN
         IF moved.val = MISSING THEN
             IF ignore_missing
             THEN RenameLoop(h, data, Tail(moves), default_ignore_missing)
             ELSE Raise(h, "rename source path not found")
         ELSE LET res == _set_context_value(moved.h, data, target.parts, moved.val) IN
              IF res.err # "" THEN res
              ELSE RenameLoop(res.h, data, Tail(moves), default_ignore_missing)

_rename(h, data, options, self) ==
    LET noPair == IsNone(options.from) \/ IsNone(options.to)
        moves == IF ~IsNone(options.moves) THEN options.moves.some
                 ELSE IF noPair THEN <<>>
                 ELSE <<[from |-> options.from.some, to |-> options.to.some,
                         ignore_missing |-> NONE]>>
        default_ignore_missing ==
            IF IsNone(options.ignore_missing) THEN TRUE ELSE options.ignore_missing.some
    IN IF IsNone(options.moves) /\ noPair
       THEN Raise(h, "rename requires with.moves or with.from + with.to.")
       ELSE RenameLoop(h, data, moves, default_ignore_missing)

\* str.join over the tokens of a string
RECURSIVE Joined(_)
Joined(toks) == IF toks = <<>> THEN "" ELSE Head(toks) \o Joined(Tail(toks))

_split_relative_path(toks) ==
    IF toks = <<>> THEN OkPath(<<>>)
    ELSE LET parts == Segments(toks, "") IN
         IF \E i \in DOMAIN parts : parts[i] = "" THEN BadPath ELSE OkPath(parts)

_get_relative_value(h, data, path) == GetIn(h, data, path)

Value(v) == [err |-> "", val |-> v]
NoValue(msg) == [err |-> msg, val |-> MISSING]

\* text.startswith(root + ".")
StartsWith(toks, root) == Len(toks) >= 2 /\ toks[1] = root /\ toks[2] = DOT

_resolve_reference_path(h, path, data, intent, sources) ==
    IF path = <<"context">> THEN Value(_clone(h, Ref(data)))
    ELSE IF StartsWith(path, "context") THEN
        LET parsed == _parse_context_path(path) IN
        IF ~parsed.ok THEN NoValue("Invalid context path")
        ELSE LET value == _get_context_value(h, data, parsed.parts) IN
             IF value = MISSING THEN NoValue("merge input path not found")
             ELSE Value(_clone(h, value))
    ELSE IF path = <<"sources">> THEN Value(_clone(h, sources))
    ELSE IF StartsWith(path, "sources") THEN
        LET parsed == _split_relative_path(SubSeq(path, 3, Len(path))) IN
        IF ~parsed.ok THEN NoValue("Invalid path")
        ELSE LET value == _get_relative_value(h, sources, parsed.parts) IN
             IF value = MISSING THEN NoValue("merge input path not found")
             ELSE Value(_clone(h, value))
    ELSE IF path = <<"intent">> THEN Value(_clone(h, intent))
    ELSE IF StartsWith(path, "intent") THEN
        LET parsed == _split_relative_path(SubSeq(path, 3, Len(path))) IN
        IF ~parsed.ok THEN NoValue("Invalid path")
        ELSE LET value == _get_relative_value(h, intent, parsed.parts) IN
             IF value = MISSING THEN NoValue("merge input path not found")
             ELSE Value(_clone(h, value))
    ELSE NoValue("Unsupported reference path")

\* an entry of with.from: {path: <string>}, a bare string, or any other value
PathItem(toks) == [kind |-> "path", text |-> toks, value |-> NULL]
StringItem(toks) == [kind |-> "str", text |-> toks, value |-> NULL]
LiteralItem(v) == [kind |-> "lit", text |-> <<>>, value |-> v]

_resolve_item_reference(h, item, data, intent, sources) ==
    IF item.kind = "path" THEN _resolve_reference_path(h, item.text, data, intent, sources)
    ELSE IF item.kind = "str" THEN
        IF \E root \in {"context", "intent", "sources"} :
               item.text = <<root>> \/ StartsWith(item.text, root)
        THEN _resolve_reference_path(h, item.text, data, intent, sources)
        ELSE Value(S(Joined(item.text)))
    ELSE Value(_clone(h, item.value))

\* the fold with the operands of the merge exchanged: the earlier entry wins
RECURSIVE EarlierWinsLoop(_, _, _, _, _)
EarlierWinsLoop(h, data, self, items, merged) ==
    IF items = <<>> THEN Value(merged)
    ELSE LET current == _resolve_item_reference(h, items[1], data, self.intent, self.sources) IN
         IF current.err # "" THEN current
         ELSE EarlierWinsLoop(h, data, self, Tail(items), _deep_merge(current.val, merged))

\* the loop of _merge: nothing is written to the tree before the last entry resolved
RECURSIVE MergeLoop(_, _, _, _, _)
MergeLoop(h, data, self, items, merged) ==
    IF items = <<>> THEN Value(merged)
    ELSE LET current == _resolve_item_reference(h, items[1], data, self.intent, self.sources) IN
         IF current.err # "" THEN current
         ELSE MergeLoop(h, data, self, Tail(items), _deep_merge(merged, current.val))

_merge(h, data, options, self) ==
    IF options.target = <<>> THEN Raise(h, "Missing required option: target")
    ELSE LET target == _parse_context_path(options.target) IN
    IF ~target.ok THEN Raise(h, "Path must start with 'context'")
    ELSE LET items == IF ~IsNone(options.from) THEN options.from
                      ELSE IF ~IsNone(options.inputs) THEN options.inputs
                      ELSE options.objects
         IN
    IF IsNone(items) \/ items.some = <<>>
    THEN Raise(h, "merge requires a non-empty list in with.from (or with.inputs).")
    ELSE LET include_existing ==
                 IF IsNone(options.include_existing) THEN FALSE
                 ELSE options.include_existing.some
             existing == _get_context_value(h, data, target.parts)
             start == IF include_existing /\ existing # MISSING THEN _clone(h, existing)
                      ELSE M(E)
             merged == MergeLoop(h, data, self, items.some, start)
         IN IF merged.err # "" THEN Raise(h, merged.err)
            ELSE _set_context_value(h, data, target.parts, merged.val)

\* a key set again goes to the end
InsertedAtEnd(order, key) == Append(SelectSeq(order, LAMBDA k : k # key), key)

\* dict insertion: a key set again keeps its place
Inserted(order, key) ==
    IF \E i \in DOMAIN order : order[i] = key THEN order ELSE Append(order, key)

\* the loop of _pick: the mapping built so far and the order its keys were inserted in
RECURSIVE PickLoop(_, _, _, _, _)
PickLoop(value, keys, strict, picked, order) ==
    IF keys = <<>> THEN [err |-> "", picked |-> picked, order |-> order]
    ELSE LET key == keys[1] IN
         IF key \in DOMAIN value
         THEN PickLoop(value, Tail(keys), strict, Put(picked, key, value[key]),
                       Inserted(order, key))
         ELSE IF strict THEN [err |-> "pick key not found", picked |-> picked, order |-> order]
         ELSE PickLoop(value, Tail(keys), strict, picked, order)

\* the result of a handler that built a new mapping: `order` is the insertion
\* order of its keys (what iterating the dict gives)
WithOrder(res, order) == [h |-> res.h, err |-> res.err, order |-> order]

_pick(h, data, options, self) ==
    IF options.path = <<>> THEN Raise(h, "Missing required option: path")
    ELSE LET path == _parse_context_path(options.path)
             target == IF IsNone(options.target) THEN path
                       ELSE _parse_context_path(options.target.some)
         IN
    IF ~path.ok \/ ~target.ok THEN Raise(h, "Path must start with 'context'")
    ELSE IF IsNone(options.keys) THEN Raise(h, "pick requires with.keys as a list of strings.")
    ELSE LET strict == IF IsNone(options.strict) THEN FALSE ELSE options.strict.some
             value == _get_context_value(h, data, path.parts)
         IN
    IF ~IsDict(value) THEN Raise(h, "pick path must point to an object.")
    ELSE LET res == PickLoop(_clone(h, value).m, options.keys.some, strict, E, <<>>) IN
         IF res.err # "" THEN Raise(h, res.err)
         ELSE WithOrder(_set_context_value(h, data, target.parts, M(res.picked)), res.order)

\* _extract_rules: with.rules, or the options themselves as the one rule when
\* they hold every required key (a key that is absent is NONE)
_extract_rules(options, required) ==
    IF IsNone(options.rules) THEN
        IF \A key \in required : ~IsNone(options[key])
        THEN [err |-> "", rules |-> <<options>>]
        ELSE [err |-> "requires with.rules or required top-level rule keys.", rules |-> <<>>]
    ELSE LET rules == options.rules.some IN
         IF rules = <<>> THEN [err |-> "rules must be a non-empty list.", rules |-> <<>>]
         ELSE IF \E i \in DOMAIN rules : \E key \in required : IsNone(rules[i][key])
         THEN [err |-> "rule missing keys", rules |-> <<>>]
         ELSE [err |-> "", rules |-> rules]

\* the order of str by code point, for the strings and keys of the model
CodepointOrder ==
    <<"", "[\"x\"]", "a", "alpha", "ann", "b", "beta", "c", "cpu", "flat", "id", "k",
      "lead", "n", "name", "team", "u", "x", "y", "zeta", "{\"k\":\"x\"}">>
Codepoint(text) == CHOOSE i \in DOMAIN CodepointOrder : CodepointOrder[i] = text

RECURSIVE JoinComma(_)
JoinComma(texts) ==
    IF texts = <<>> THEN ""
    ELSE IF Len(texts) = 1 THEN texts[1]
    ELSE texts[1] \o "," \o JoinComma(Tail(texts))

\* json.dumps(value, sort_keys=True, ensure_ascii=False, separators=(",", ":"))
RECURSIVE json_dumps(_)
json_dumps(value) ==
    IF value = NULL THEN "null"
    ELSE IF IsBool(value) THEN (IF value.b THEN "true" ELSE "false")
    ELSE IF IsNumber(value) THEN ToString(value.n)
    ELSE IF IsFloat(value) THEN ToString(value.f) \o ".0"
    ELSE IF IsScalar(value) THEN "\"" \o value.s \o "\""
    ELSE IF IsList(value) THEN
        "[" \o JoinComma([i \in DOMAIN value.l |-> json_dumps(value.l[i])]) \o "]"
    ELSE LET keys == SelectSeq(CodepointOrder, LAMBDA k : k \in DOMAIN value.m) IN
         "{" \o JoinComma([i \in DOMAIN keys |->
                              "\"" \o keys[i] \o "\":" \o json_dumps(value.m[keys[i]])])
             \o "}"

_sort_token(value) ==
    IF value = NULL THEN <<0, "">>
    ELSE IF IsBool(value) THEN <<1, IF value.b THEN 1 ELSE 0>>
    ELSE IF IsNumber(value) THEN <<2, value.n>>
    ELSE IF IsFloat(value) THEN <<2, value.f>>
    ELSE IF IsScalar(value) THEN <<3, value.s>>
    ELSE <<4, json_dumps(value)>>

\* a < b on the tuples _sort_token returns
TokenLess(a, b) ==
    \/ a[1] < b[1]
    \/ /\ a[1] = b[1]
       /\ IF a[1] = 0 THEN FALSE
          ELSE IF a[1] \in {1, 2} THEN a[2] < b[2]
          ELSE Codepoint(a[2]) < Codepoint(b[2])

RECURSIVE Reversed(_)
Reversed(q) == IF q = <<>> THEN <<>> ELSE Append(Reversed(Tail(q)), Head(q))

\* item goes behind every entry it does not have to precede
RECURSIVE InsertByKey(_, _, _)
InsertByKey(acc, item, reverse) ==
    IF acc = <<>> THEN <<item>>
    ELSE IF (IF reverse THEN TokenLess(acc[1].key, item.key)
             ELSE TokenLess(item.key, acc[1].key))
    THEN <<item>> \o acc
    ELSE <<acc[1]>> \o InsertByKey(Tail(acc), item, reverse)

RECURSIVE StableOrder(_, _)
StableOrder(items, reverse) ==
    IF items = <<>> THEN <<>>
    ELSE InsertByKey(StableOrder(SubSeq(items, 1, Len(items) - 1), reverse),
                     items[Len(items)], reverse)

\* descending as the ascending order read backwards
AscendingReversed(items, reverse) ==
    IF reverse THEN Reversed(StableOrder(items, FALSE)) ELSE StableOrder(items, FALSE)

\* sorted(items, key=lambda item: item[1], reverse=reverse): stable in both directions
sorted(items, reverse) == StableOrder(items, reverse)

\* key_path is NONE (with.by absent) or Some(parts)
_stable_sorted(h, values, key_path, reverse) ==
    LET decorated ==
            [i \in DOMAIN values |->
                IF IsNone(key_path)
                THEN [missing |-> FALSE, key |-> _sort_token(values[i]), value |-> values[i]]
                ELSE LET extracted == _get_relative_value(h, values[i], key_path.some) IN
                     [missing |-> extracted = MISSING,
                      key |-> IF extracted = MISSING THEN <<0, "">> ELSE _sort_token(extracted),
                      value |-> values[i]]]
        present == SelectSeq(decorated, LAMBDA item : ~item.missing)
        missing == SelectSeq(decorated, LAMBDA item : item.missing)
        present_sorted == sorted(present, reverse)
    IN [i \in DOMAIN present_sorted |-> present_sorted[i].value]
       \o [i \in DOMAIN missing |-> missing[i].value]

\* str(x).strip().lower() on the order and keep strings used
Lowered(text) ==
    CASE text = " DESC " -> "desc"
      [] text = "Last" -> "last"
      [] OTHER -> text

RECURSIVE SortStableLoop(_, _, _)
SortStableLoop(h, data, rules) ==
    IF rules = <<>> THEN Ok(h)
    ELSE LET rule == rules[1] IN
    IF rule.path.some = <<>> THEN Raise(h, "Missing required option: path")
    ELSE LET path == _parse_context_path(rule.path.some)
             order == IF ~IsNone(rule.order) THEN Lowered(rule.order.some)
                      ELSE IF ~IsNone(rule.direction) THEN Lowered(rule.direction.some)
                      ELSE "asc"
         IN
    IF ~path.ok THEN Raise(h, "Path must start with 'context'")
    ELSE IF order \notin {"asc", "desc"} THEN Raise(h, "sort_stable order must be 'asc' or 'desc'.")
    ELSE LET key_parts == IF IsNone(rule.by) THEN OkPath(<<>>)
                          ELSE _split_relative_path(rule.by.some)
         IN
    IF ~key_parts.ok THEN Raise(h, "Invalid path")
    ELSE LET values == _get_context_value(h, data, path.parts) IN
    IF ~IsList(values) THEN Raise(h, "sort_stable path must point to an array.")
    ELSE LET sorted_values ==
                 _stable_sorted(h, values.l,
                                IF IsNone(rule.by) THEN NONE ELSE Some(key_parts.parts),
                                order = "desc")
             res == _set_context_value(h, data, path.parts, L(sorted_values))
         IN IF res.err # "" THEN res ELSE SortStableLoop(res.h, data, Tail(rules))

_sort_stable(h, data, options, self) ==
    LET rules == _extract_rules(options, {"path"}) IN
    IF rules.err # "" THEN Raise(h, rules.err) ELSE SortStableLoop(h, data, rules.rules)

\* what value is as a member of the set `seen`: equal numbers and booleans are
\* one member (True == 1, False == 0), an unhashable value is its JSON text
_dedupe_marker(value) ==
    IF IsBool(value) THEN N(IF value.b THEN 1 ELSE 0)
    ELSE IF IsFloat(value) THEN N(value.f)
    ELSE IF IsMap(value) \/ IsList(value) THEN S(json_dumps(value))
    ELSE value

RECURSIVE DedupeLoop(_, _, _, _, _)
DedupeLoop(h, values, key_path, seen, output) ==
    IF values = <<>> THEN output
    ELSE LET value == values[1]
             key_value == IF IsNone(key_path) THEN value
                          ELSE _get_relative_value(h, value, key_path.some)
         IN IF key_value = MISSING
            THEN DedupeLoop(h, Tail(values), key_path, seen, Append(output, value))
            ELSE LET marker == _dedupe_marker(key_value) IN
                 IF marker \in seen THEN DedupeLoop(h, Tail(values), key_path, seen, output)
                 ELSE DedupeLoop(h, Tail(values), key_path, seen \cup {marker},
                                 Append(output, value))

_dedupe_first(h, values, key_path) == DedupeLoop(h, values, key_path, {}, <<>>)

\* list(reversed(_dedupe_first(list(reversed(values)), key_parts)))
KeepLast(h, values, key_path) == Reversed(_dedupe_first(h, Reversed(values), key_path))

RECURSIVE DedupeRules(_, _, _)
DedupeRules(h, data, rules) ==
    IF rules = <<>> THEN Ok(h)
    ELSE LET rule == rules[1] IN
    IF rule.path.some = <<>> THEN Raise(h, "Missing required option: path")
    ELSE LET path == _parse_context_path(rule.path.some)
             keep == IF IsNone(rule.keep) THEN "first" ELSE Lowered(rule.keep.some)
         IN
    IF ~path.ok THEN Raise(h, "Path must start with 'context'")
    ELSE IF keep \notin {"first", "last"} THEN Raise(h, "dedupe keep must be one of: first, last.")
    ELSE LET values == _get_context_value(h, data, path.parts) IN
    IF ~IsList(values) THEN Raise(h, "dedupe path must point to an array.")
    ELSE LET key_parts == IF IsNone(rule.by) THEN OkPath(<<>>)
                          ELSE _split_relative_path(rule.by.some)
         IN
    IF ~key_parts.ok THEN Raise(h, "Invalid path")
    ELSE LET key_path == IF IsNone(rule.by) THEN NONE ELSE Some(key_parts.parts)
             deduped == IF keep = "first" THEN _dedupe_first(h, values.l, key_path)
                        ELSE KeepLast(h, values.l, key_path)
             res == _set_context_value(h, data, path.parts, L(deduped))
         IN IF res.err # "" THEN res ELSE DedupeRules(res.h, data, Tail(rules))

_dedupe(h, data, options, self) ==
    LET rules == _extract_rules(options, {"path"}) IN
    IF rules.err # "" THEN Raise(h, rules.err) ELSE DedupeRules(h, data, rules.rules)

\* the loop over the items of one rule: every item is changed in the array as
\* soon as it is reached; lookup is the mapping as it is at that moment
RECURSIVE RefResolveItems(_, _, _, _)
RefResolveItems(h, data, rule, index) ==
    LET items == _get_context_value(h, data, rule.items).l IN
    IF index > Len(items) THEN Ok(h)
    ELSE LET item == items[index] IN
    IF ~IsDict(item) THEN Raise(h, "ref_resolve expected object item at index.")
    ELSE LET ref == _get_relative_value(h, item, rule.ref_key) IN
    IF ref = MISSING \/ ref = NULL THEN
        IF rule.required THEN Raise(h, "ref_resolve missing ref key on item index.")
        ELSE RefResolveItems(h, data, rule, index + 1)
    ELSE IF IsMap(ref) \/ IsList(ref) THEN Raise(h, "TypeError: unhashable type")
    ELSE LET lookup == DictOf(h, _get_context_value(h, data, rule.lookup)) IN
    IF ~IsScalar(ref) \/ ref.s \notin DOMAIN lookup THEN
        IF rule.required THEN Raise(h, "ref_resolve missing lookup value for key")
        ELSE RefResolveItems(h, data, rule, index + 1)
    ELSE LET resolved == _clone(h, lookup[ref.s])
             changed == M(SetInline(DictOf(h, item), rule.target_key, resolved))
         IN RefResolveItems(SetObj(h, data, rule.items, L([items EXCEPT ![index] = changed])),
                            data, rule, index + 1)

RECURSIVE RefResolveRules(_, _, _)
RefResolveRules(h, data, rules) ==
    IF rules = <<>> THEN Ok(h)
    ELSE LET rule == rules[1] IN
    IF \E key \in {"items", "lookup", "ref_key", "target_key"} : rule[key].some = <<>>
    THEN Raise(h, "Missing required option")
    ELSE LET items_path == _parse_context_path(rule.items.some)
             lookup_path == _parse_context_path(rule.lookup.some)
             ref_key == _split_relative_path(rule.ref_key.some)
             target_key == _split_relative_path(rule.target_key.some)
         IN
    IF ~items_path.ok \/ ~lookup_path.ok THEN Raise(h, "Path must start with 'context'")
    ELSE IF ~ref_key.ok \/ ~target_key.ok THEN Raise(h, "Invalid path")
    ELSE IF ~IsList(_get_context_value(h, data, items_path.parts))
    THEN Raise(h, "ref_resolve items path must point to an array.")
    ELSE IF ~IsDict(_get_context_value(h, data, lookup_path.parts))
    THEN Raise(h, "ref_resolve lookup path must point to an object map.")
    ELSE LET res == RefResolveItems(h, data,
                        [items |-> items_path.parts, lookup |-> lookup_path.parts,
                         ref_key |-> ref_key.parts, target_key |-> target_key.parts,
                         required |-> IF IsNone(rule.required) THEN FALSE
                                      ELSE rule.required.some],
                        1)
         IN IF res.err # "" THEN res ELSE RefResolveRules(res.h, data, Tail(rules))

_ref_resolve(h, data, options, self) ==
    LET rules == _extract_rules(options, {"items", "lookup", "ref_key", "target_key"}) IN
    IF rules.err # "" THEN Raise(h, rules.err) ELSE RefResolveRules(h, data, rules.rules)

\* value.strip().lower() on the strings of the model
Normalized(text) ==
    CASE text = " Yes " -> "yes"
      [] text = "OFF" -> "off"
      [] text = " Integer " -> "integer"
      [] OTHER -> text

_to_bool(value) ==
    IF IsBool(value) THEN Value(value)
    ELSE IF IsNumber(value) \/ IsFloat(value) THEN
        LET number == IF IsNumber(value) THEN value.n ELSE value.f IN
        IF number = 1 THEN Value(B(TRUE))
        ELSE IF number = 0 THEN Value(B(FALSE))
        ELSE NoValue("Cannot coerce to bool")
    ELSE IF IsScalar(value) THEN
        IF Normalized(value.s) \in {"true", "1", "yes", "y", "on"} THEN Value(B(TRUE))
        ELSE IF Normalized(value.s) \in {"false", "0", "no", "n", "off"} THEN Value(B(FALSE))
        ELSE NoValue("Cannot coerce to bool")
    ELSE NoValue("Cannot coerce to bool")

\* int(text.strip()) on the strings of the model: NONE where int() raises
ParsedInt(text) ==
    CASE text = "1" -> Some(1)
      [] text = "0" -> Some(0)
      [] text = " 42 " -> Some(42)
      [] OTHER -> NONE

_to_int(value) ==
    IF IsBool(value) THEN NoValue("Cannot coerce to int")
    ELSE IF IsNumber(value) THEN Value(value)
    ELSE IF IsFloat(value) THEN Value(N(value.f))
    ELSE IF IsScalar(value) THEN
        IF IsNone(ParsedInt(value.s)) THEN NoValue("Cannot coerce to int")
        ELSE Value(N(ParsedInt(value.s).some))
    ELSE NoValue("Cannot coerce to int")

\* float(text.strip()) on the strings of the model: every string int() reads
_to_float(value) ==
    IF IsBool(value) THEN NoValue("Cannot coerce to float")
    ELSE IF IsNumber(value) THEN Value(F(value.n))
    ELSE IF IsFloat(value) THEN Value(value)
    ELSE IF IsScalar(value) THEN
        IF IsNone(ParsedInt(value.s)) THEN NoValue("Cannot coerce to float")
        ELSE Value(F(ParsedInt(value.s).some))
    ELSE NoValue("Cannot coerce to float")

\* repr of a value inside a container
RECURSIVE PyRepr(_)
PyRepr(value) ==
    IF value = NULL THEN "None"
    ELSE IF IsBool(value) THEN (IF value.b THEN "True" ELSE "False")
    ELSE IF IsNumber(value) THEN ToString(value.n)
    ELSE IF IsFloat(value) THEN ToString(value.f) \o ".0"
    ELSE IF IsScalar(value) THEN "'" \o value.s \o "'"
    ELSE IF IsList(value) THEN
        "[" \o JoinComma([i \in DOMAIN value.l |-> PyRepr(value.l[i])]) \o "]"
    ELSE LET keys == SelectSeq(CodepointOrder, LAMBDA k : k \in DOMAIN value.m) IN
         "{" \o JoinComma([i \in DOMAIN keys |->
                              "'" \o keys[i] \o "': " \o PyRepr(value.m[keys[i]])])
             \o "}"

\* str(value)
PyStr(value) == IF IsScalar(value) THEN value.s ELSE PyRepr(value)

\* _to_rfc3339 on the strings of the model
_to_rfc3339(value) ==
    IF ~IsScalar(value) THEN NoValue("Cannot coerce to timestamp")
    ELSE CASE value.s = "2024-01-02" -> Value(S("2024-01-02T00:00:00Z"))
           [] value.s = "2024-01-02T03:04:05Z" -> Value(S("2024-01-02T03:04:05Z"))
           [] value.s = "2024-01-02T03:04:05" -> Value(S("2024-01-02T03:04:05Z"))
           [] value.s = "2024-01-02T03:04:05+02:00" -> Value(S("2024-01-02T01:04:05Z"))
           [] OTHER -> NoValue("Cannot coerce to timestamp")

_coerce_value(value, type_name) ==
    IF type_name \in {"bool", "boolean"} THEN _to_bool(value)
    ELSE IF type_name \in {"int", "integer"} THEN _to_int(value)
    ELSE IF type_name \in {"float", "number"} THEN _to_float(value)
    ELSE IF type_name = "string" THEN Value(S(PyStr(value)))
    ELSE IF type_name = "timestamp" THEN _to_rfc3339(value)
    ELSE NoValue("Unsupported coerce type")

RECURSIVE CoerceLoop(_, _, _, _)
CoerceLoop(h, data, rules, default_ignore_missing) ==
    IF rules = <<>> THEN Ok(h)
    ELSE LET rule == rules[1] IN
    IF rule.path.some = <<>> THEN Raise(h, "Missing required option: path")
    ELSE LET path == _parse_context_path(rule.path.some)
             type_name == Normalized(rule.type.some)
             ignore_missing == IF IsNone(rule.ignore_missing) THEN default_ignore_missing
                               ELSE rule.ignore_missing.some
         IN
    IF ~path.ok THEN Raise(h, "Path must start with 'context'")
    ELSE LET current == _get_context_value(h, data, path.parts) IN
    IF current = MISSING THEN
        IF ignore_missing THEN CoerceLoop(h, data, Tail(rules), default_ignore_missing)
        ELSE Raise(h, "coerce path not found")
    ELSE LET coerced == _coerce_value(_clone(h, current), type_name) IN
    IF coerced.err # "" THEN Raise(h, coerced.err)
    ELSE LET res == _set_context_value(h, data, path.parts, coerced.val) IN
         IF res.err # "" THEN res
         ELSE CoerceLoop(res.h, data, Tail(rules), default_ignore_missing)

_coerce(h, data, options, self) ==
    LET rules == _extract_rules(options, {"path", "type"}) IN
    IF rules.err # "" THEN Raise(h, rules.err)
    ELSE CoerceLoop(h, data, rules.rules,
                    IF IsNone(options.ignore_missing) THEN TRUE
                    ELSE options.ignore_missing.some)

\* a JSON Schema of the kind the projects use: required keys, the type of each
\* property, additionalProperties
Schema(required, properties, additional) ==
    [required |-> required, properties |-> properties, additional |-> additional]
ObjectProps(names) == [k \in names |-> "object"]

TypeOk(type, v) == IF type = "object" THEN IsMap(v) ELSE IsScalar(v)
iter_errors(schema, instance) ==
    {<<"required", k>> : k \in schema.required \ DOMAIN instance.m}
    \cup {<<"type", k>> : k \in {x \in DOMAIN instance.m \cap DOMAIN schema.properties :
                                    ~TypeOk(schema.properties[x], instance.m[x])}}
    \cup (IF schema.additional THEN {}
          ELSE {<<"additionalProperties", k>> :
                    k \in DOMAIN instance.m \ DOMAIN schema.properties})

\* the file a schema path names: absent, not JSON, or a JSON schema
NoFile == [kind |-> "missing", schema |-> NULL]
NotJsonFile == [kind |-> "not json", schema |-> NULL]
JsonFile(schema) == [kind |-> "json", schema |-> schema]

load_compiled_schema(file) ==
    IF file.kind = "missing" THEN NoValue("Schema not found")
    ELSE IF file.kind = "not json" THEN NoValue("Invalid JSON schema")
    ELSE Value(file.schema)

_validate_schema(h, data, options, self) ==
    LET schema_file == IF ~IsNone(options.schema) THEN options.schema
                       ELSE self.schema_path
    IN IF IsNone(schema_file)
       THEN Raise(h, "validate_schema requires schema path in config or with.schema.")
       ELSE LET schema == load_compiled_schema(schema_file.some) IN
            IF schema.err # "" THEN Raise(h, schema.err)
            ELSE IF iter_errors(schema.val, Content(h, Ref(data))) # {}
            THEN Raise(h, "Schema validation failed")
            ELSE Ok(h)

_HANDLERS ==
    {"mount", "merge", "pick", "rename", "coerce", "defaults", "validate_schema",
     "ref_resolve", "sort_stable", "dedupe"}

handler(h, data, self) ==
    CASE self.transform_name = "mount" -> _mount(h, data, self.options, self)
      [] self.transform_name = "merge" -> _merge(h, data, self.options, self)
      [] self.transform_name = "pick" -> _pick(h, data, self.options, self)
      [] self.transform_name = "rename" -> _rename(h, data, self.options, self)
      [] self.transform_name = "coerce" -> _coerce(h, data, self.options, self)
      [] self.transform_name = "defaults" -> _defaults(h, data, self.options, self)
      [] self.transform_name = "validate_schema" ->
            _validate_schema(h, data, self.options, self)
      [] self.transform_name = "ref_resolve" -> _ref_resolve(h, data, self.options, self)
      [] self.transform_name = "sort_stable" -> _sort_stable(h, data, self.options, self)
      [] self.transform_name = "dedupe" -> _dedupe(h, data, self.options, self)

NewTree(data) == IF data = "t0" THEN "t1" ELSE "t0"

\* return handler(value, ...): the handler returns the object it was given
HandlerReturn(value, res) ==
    [h |-> res.h, out |-> IF res.err = "" THEN value ELSE "", err |-> res.err,
     order |-> IF "order" \in DOMAIN res THEN res.order ELSE <<>>]

\* BuiltinTransform.apply: the heap after the call, the object returned, the error raised
apply(h, value, self) ==
    IF self.transform_name = "canonicalize" THEN
        [h |-> [h EXCEPT ![NewTree(value)] = canonicalize(h, self.intent, self.sources)],
         out |-> NewTree(value), err |-> ""]
    ELSE IF self.transform_name \notin _HANDLERS THEN
        [h |-> h, out |-> "", err |-> "Unknown builtin transform"]
    ELSE HandlerReturn(value, handler(h, value, self))

-----------------------------------------------------------------------------
(* The engine driven step by step, as validate's preflight and the unit     *)
(* tests drive it: apply(value) on a new instance per configured step.      *)

MaxSteps == 2

Intent0 == Map2("standards", Ref("std"), "exceptions", Ref("exc"))
Standards0 == Map1("team", S("platform"))

SourcesChoices ==
    {E,
     Map1("inv", M(Map1("cpu", S("4")))),
     Map1("inv", M(Map2("limits", M(Map1("cpu", S("4"))), "mem", S("9")))),
     Map1("inv", S("flat"))}

ContextChoices ==
    {E,
     Map1("config", M(Map1("mem", S("1")))),
     Map1("config", M(Map2("limits", M(Map2("mem", S("1"), "cpu", S("2"))), "mem", S("1")))),
     Map2("config", S("x"), "sources", M(Map1("inv", M(Map1("cpu", S("8"))))))}

Heap0(sources, tree) ==
    [intent |-> Intent0, std |-> Standards0, exc |-> E, src |-> sources,
     t0 |-> tree, t1 |-> E]

NoCall(h) ==
    [opts |-> NONE, in |-> "t0", out |-> "t0", err |-> "", pre |-> h, order |-> <<>>]

IdleBuild ==
    /\ bpc = "idle" /\ bcfg = NONE /\ events = <<>> /\ canonical = NONE /\ bundle = NONE
IdleDsl ==
    /\ doc = NONE /\ dpc = "idle" /\ dfs = NONE /\ result = NONE

\* either a context a caller hands in, or the seed canonicalize(intent, sources)
Init ==
    /\ \E sources \in SourcesChoices :
          \/ \E tree \in ContextChoices :
                /\ heap = Heap0(sources, tree)
                /\ hist = <<>>
          \/ /\ heap = Heap0(sources, canonicalize(Heap0(sources, E), Ref("intent"), Ref("src")))
             /\ hist = <<"canonicalize">>
    /\ cur = "t0"
    /\ last = NoCall(heap)
    /\ IdleBuild
    /\ IdleDsl

Targets ==
    {CtxPath(<<"config">>), CtxPath(<<>>), CtxPath(<<"sources", "inv">>), <<"config">>}

MountOptions ==
    {[op |-> "mount", source_id |-> "inv", target |-> t, strategy |-> g] :
        t \in Targets,
        g \in {NONE, Some("merge"), Some("deep"), Some(" Replace "), Some("bogus")}}
    \cup {[op |-> "mount", source_id |-> "nosuch", target |-> CtxPath(<<"config">>),
           strategy |-> NONE],
          [op |-> "mount", source_id |-> "", target |-> CtxPath(<<"config">>),
           strategy |-> NONE],
          [op |-> "mount", source_id |-> "inv", target |-> <<>>, strategy |-> NONE]}

DefaultsValues(values) ==
    [op |-> "defaults", values |-> Some(values), rules |-> NONE, path |-> NONE, value |-> NONE]
DefaultsRules(rules) ==
    [op |-> "defaults", values |-> NONE, rules |-> Some(rules), path |-> NONE, value |-> NONE]
DefaultsInline(path, value) ==
    [op |-> "defaults", values |-> NONE, rules |-> NONE, path |-> path, value |-> value]

DefaultsOptions ==
    {DefaultsValues(<<<<CtxPath(<<"env">>), S("dev")>>>>),
     DefaultsValues(<<<<CtxPath(<<"config", "mem">>), S("7")>>,
                      <<CtxPath(<<"sources", "extra">>), S("1")>>>>),
     DefaultsValues(<<<<CtxPath(<<"standards", "team">>), S("other")>>,
                      <<CtxPath(<<"standards", "tier">>), S("gold")>>>>),
     DefaultsValues(<<<<CtxPath(<<"env">>), S("dev")>>, <<<<"env">>, S("dev")>>>>),
     DefaultsRules(<<<<CtxPath(<<"env">>), S("dev")>>>>),
     DefaultsRules(<<<<CtxPath(<<"env">>), NONE>>>>),
     DefaultsInline(Some(CtxPath(<<"config">>)), M(E)),
     DefaultsInline(NONE, NONE)}

Move(from, to, ignore_missing) == [from |-> from, to |-> to, ignore_missing |-> ignore_missing]
RenameMoves(moves) ==
    [op |-> "rename", moves |-> Some(moves), from |-> NONE, to |-> NONE,
     ignore_missing |-> NONE]
RenamePair(from, to, ignore_missing) ==
    [op |-> "rename", moves |-> NONE, from |-> from, to |-> to,
     ignore_missing |-> ignore_missing]

RenameOptions ==
    {RenamePair(Some(CtxPath(<<"config">>)), Some(CtxPath(<<"settings">>)), NONE),
     RenamePair(Some(CtxPath(<<"sources", "inv">>)), Some(CtxPath(<<"inventory">>)), NONE),
     RenamePair(Some(CtxPath(<<"absent">>)), Some(CtxPath(<<"settings">>)), NONE),
     RenamePair(Some(CtxPath(<<"absent">>)), Some(CtxPath(<<"settings">>)), Some(FALSE)),
     RenamePair(Some(CtxPath(<<"config">>)), NONE, NONE),
     RenamePair(Some(CtxPath(<<"config">>)), Some(CtxPath(<<"config", "inner">>)), NONE),
     RenamePair(Some(CtxPath(<<"config", "mem">>)), Some(CtxPath(<<"config">>)), NONE),
     RenamePair(Some(CtxPath(<<>>)), Some(CtxPath(<<"all">>)), NONE),
     RenameMoves(<<Move(CtxPath(<<"config">>), CtxPath(<<"settings">>), NONE),
                   Move(CtxPath(<<"absent">>), CtxPath(<<"other">>), Some(FALSE))>>),
     RenameMoves(<<Move(CtxPath(<<"config">>), CtxPath(<<"settings">>), NONE),
                   Move(CtxPath(<<"settings">>), CtxPath(<<"final", "cfg">>), NONE)>>),
     RenameMoves(<<Move(CtxPath(<<"config", "mem">>), CtxPath(<<>>), NONE)>>)}

\* one configured step: a new instance, then instance.apply(value)
\* what the caller has after apply: the heap, the tree it goes on with, and
\* the call as the claims read it
Applied(options, pre, res) ==
    /\ heap' = res.h
    /\ cur' = IF res.err = "" THEN res.out ELSE cur
    /\ hist' = Append(hist, options.op)
    /\ last' = [opts |-> options, in |-> cur, out |-> res.out, err |-> res.err,
                pre |-> pre,
                order |-> IF "order" \in DOMAIN res THEN res.order ELSE <<>>]

Step(options) ==
    /\ Len(hist) < MaxSteps
    /\ last.err = ""
    /\ LET self == BuiltinTransform(heap, Some(options.op), Ref("intent"), Ref("src"), options)
       IN Applied(options, heap, apply(heap, cur, self))
    /\ UNCHANGED <<buildVars, dslVars>>

ApplyCanonicalize == Step([op |-> "canonicalize"])
ApplyMount == \E options \in MountOptions : Step(options)
ApplyDefaults == \E options \in DefaultsOptions : Step(options)
ApplyRename == \E options \in RenameOptions : Step(options)
ApplyUnknown == Step([op |-> "unknown_transform"])

Next == ApplyCanonicalize \/ ApplyMount \/ ApplyDefaults \/ ApplyRename \/ ApplyUnknown

Spec == Init /\ [][Next]_vars

-----------------------------------------------------------------------------
(* Claims about the transform engine (Spec).                                *)

Called == ~IsNone(last.opts)
CalledOp(name) == Called /\ last.opts.op = name
TreeBefore == Content(last.pre, Ref(last.in))
TreeAfter == Content(heap, Ref(last.in))

\* C1: every builtin op is all-or-nothing: when apply raises, the context tree
\* passed in is exactly as it was before the call (no earlier move or rule of
\* the step stays applied).
C1_RaiseLeavesTreeUntouched ==
    (Called /\ last.err # "") => TreeAfter = TreeBefore

\* C2: a step does not mutate its input: when apply succeeds, the tree passed
\* in still has its original content and the returned tree is another object.
C2_InputNotMutated ==
    (Called /\ last.err = "") => (TreeAfter = TreeBefore /\ last.out # last.in)

\* C3: in a sequence of steps that starts with canonicalize, no step changes
\* the content of the intent mapping or of the sources mapping handed to the steps.
C3_AmbientInputsUnchanged ==
    (Called /\ hist[1] = "canonicalize") =>
        /\ Content(heap, Ref("src")) = Content(last.pre, Ref("src"))
        /\ Content(heap, Ref("intent")) = Content(last.pre, Ref("intent"))

(* C10: mount *)

MountTarget == _parse_context_path(last.opts.target)
MountStrategy ==
    IF IsNone(last.opts.strategy) THEN "merge" ELSE StripLower(last.opts.strategy.some)
MountSource ==
    _resolve_source_value(last.pre, last.in, OrEmpty(last.pre, Ref("src")),
                          last.opts.source_id)
MountExisting == GetIn(last.pre, TreeBefore, MountTarget.parts)
MountWritten == GetIn(heap, TreeAfter, MountTarget.parts)

\* the call the claim is about: a source that resolves, a target that parses,
\* one of the three strategies
MountCase ==
    /\ CalledOp("mount")
    /\ last.opts.source_id # "" /\ MountTarget.ok /\ last.opts.target # <<>>
    /\ MountSource # MISSING
    /\ MountStrategy \in {"merge", "deep", "replace"}

\* res is the deep merge of base with incoming: incoming wins on collisions,
\* keys of one side only are kept, nested mappings are merged key by key
RECURSIVE IsDeepMergeOf(_, _, _)
IsDeepMergeOf(res, base, incoming) ==
    IF IsMap(base) /\ IsMap(incoming) THEN
        /\ IsMap(res)
        /\ DOMAIN res.m = DOMAIN base.m \cup DOMAIN incoming.m
        /\ \A k \in DOMAIN res.m :
              IF k \notin DOMAIN incoming.m THEN res.m[k] = base.m[k]
              ELSE IF k \notin DOMAIN base.m THEN res.m[k] = incoming.m[k]
              ELSE IsDeepMergeOf(res.m[k], base.m[k], incoming.m[k])
    ELSE res = incoming

\* every path that neither leads to `path` nor lies under it reads the same in
\* `before` and `after`
RECURSIVE SameOutside(_, _, _)
SameOutside(before, after, path) ==
    \/ path = <<>>
    \/ /\ IsMap(after)
       /\ LET bm == IF IsMap(before) THEN before.m ELSE E
              k == path[1]
          IN /\ DOMAIN after.m \ {k} = DOMAIN bm \ {k}
             /\ \A x \in DOMAIN bm \ {k} : after.m[x] = bm[x]
             /\ k \in DOMAIN after.m
             /\ SameOutside(IF k \in DOMAIN bm THEN bm[k] ELSE MISSING, after.m[k], Tail(path))

MountExpected ==
    IF MountExisting = MISSING \/ MountStrategy = "replace" THEN MountSource
    ELSE DeepMergeIncomingWins(MountExisting, MountSource)

MountEffect ==
    /\ last.err = ""
    /\ IF MountStrategy = "replace" \/ MountExisting = MISSING
       THEN MountWritten = MountSource
       ELSE IsDeepMergeOf(MountWritten, MountExisting, MountSource)
    /\ SameOutside(TreeBefore, TreeAfter, MountTarget.parts)

\* the root of the tree can only be replaced by a mapping
MountRootRefused == MountTarget.parts = <<>> /\ ~IsMap(MountExpected)

\* C10 as stated: for every context and source value, mount sets the target to
\* the deep merge (merge, deep, no strategy) or to the source (replace, or
\* nothing at the target), and leaves the paths outside the target unchanged.
C10_MountAlwaysWrites == MountCase => MountEffect

\* C10 amended: the same, except that a mount onto the context root whose value
\* is not a mapping raises and leaves the tree unchanged.
C10_MountWritesUnlessRootRefused ==
    MountCase =>
        IF MountRootRefused THEN last.err # "" /\ TreeAfter = TreeBefore
        ELSE MountEffect

\* a merge mount onto an existing mapping that shares a nested mapping with the source
C10_Witness ==
    /\ MountCase /\ last.err = "" /\ MountStrategy = "merge"
    /\ IsMap(MountExisting) /\ IsMap(MountSource)
    /\ \E k \in DOMAIN MountExisting.m \cap DOMAIN MountSource.m :
          /\ IsMap(MountExisting.m[k]) /\ IsMap(MountSource.m[k])
          /\ DOMAIN MountExisting.m[k].m \ DOMAIN MountSource.m[k].m # {}

\* C11: a mount whose strategy is none of merge, deep, replace raises and leaves
\* the tree as it was, for every context, also when nothing exists yet at the
\* target path.
C11_UnknownStrategyRaises ==
    (CalledOp("mount") /\ MountStrategy \notin {"merge", "deep", "replace"}) =>
        (last.err # "" /\ TreeAfter = TreeBefore)

(* C13: defaults *)

\* every value present in `before` is still there in `after`: a mapping may
\* have gained keys, everything else is as it was
RECURSIVE Preserved(_, _)
Preserved(before, after) ==
    IF IsMap(before) THEN
        /\ IsMap(after)
        /\ DOMAIN before.m \subseteq DOMAIN after.m
        /\ \A k \in DOMAIN before.m : Preserved(before.m[k], after.m[k])
    ELSE after = before

DefaultsPairs == _iter_default_assignments(last.opts).list

\* C13: defaults only fills gaps: a pair whose path already holds a value (an
\* explicit null included) leaves it as it is, a pair is written only where
\* nothing existed, and no value that was present in the tree before the step
\* is overwritten or removed by it.
C13_DefaultsOnlyFillsGaps ==
    CalledOp("defaults") =>
        /\ Preserved(TreeBefore, TreeAfter)
        /\ \A i \in DOMAIN DefaultsPairs :
              LET path == _parse_context_path(DefaultsPairs[i][1])
                  was == GetIn(last.pre, TreeBefore, path.parts)
              IN (path.ok /\ was # MISSING) =>
                     GetIn(heap, TreeAfter, path.parts) = was

(* C17: rename *)

IsPrefix(p, q) == Len(p) <= Len(q) /\ SubSeq(q, 1, Len(p)) = p
Unrelated(p, q) == ~IsPrefix(p, q) /\ ~IsPrefix(q, p)

\* the moves of the call, with.from + with.to being a list of one move
RenameMoveList ==
    IF ~IsNone(last.opts.moves) THEN last.opts.moves.some
    ELSE IF IsNone(last.opts.from) \/ IsNone(last.opts.to) THEN <<>>
    ELSE <<Move(last.opts.from.some, last.opts.to.some, NONE)>>

RenameIgnoreMissing(move) ==
    IF ~IsNone(move.ignore_missing) THEN move.ignore_missing.some
    ELSE IF ~IsNone(last.opts.ignore_missing) THEN last.opts.ignore_missing.some
    ELSE TRUE

RenameWellFormed ==
    /\ CalledOp("rename")
    /\ RenameMoveList # <<>>
    /\ \A i \in DOMAIN RenameMoveList :
          /\ _parse_context_path(RenameMoveList[i].from).ok
          /\ _parse_context_path(RenameMoveList[i].to).ok

MoveFrom(i) == _parse_context_path(RenameMoveList[i].from).parts
MoveTo(i) == _parse_context_path(RenameMoveList[i].to).parts

\* C17 as stated: after a rename step, for every move with distinct paths whose
\* from path resolved, the value that was at from is at to and from no longer
\* resolves; a move whose from path did not resolve leaves the tree unchanged
\* when ignore_missing holds (the default) and makes the step raise otherwise.
C17_RenameMovesEveryValue ==
    RenameWellFormed =>
        \A i \in DOMAIN RenameMoveList :
            LET was == GetIn(last.pre, TreeBefore, MoveFrom(i)) IN
            IF was # MISSING THEN
                (MoveFrom(i) # MoveTo(i) /\ last.err = "") =>
                    /\ GetIn(heap, TreeAfter, MoveTo(i)) = was
                    /\ GetIn(heap, TreeAfter, MoveFrom(i)) = MISSING
            ELSE IF RenameIgnoreMissing(RenameMoveList[i])
                 THEN Len(RenameMoveList) = 1 => (last.err = "" /\ TreeAfter = TreeBefore)
                 ELSE last.err # ""

\* the call after its first k moves, as the loop of _rename leaves it
RenameAfter(k) ==
    RenameLoop(last.pre, last.in, SubSeq(RenameMoveList, 1, k),
               IF IsNone(last.opts.ignore_missing) THEN TRUE
               ELSE last.opts.ignore_missing.some)
RenameTreeAfter(k) == Content(RenameAfter(k).h, Ref(last.in))
RenameReached(k) == RenameAfter(k - 1).err = ""

\* C17 amended: move by move.  A move that is reached, whose from path is not the
\* root and resolves at that moment, and whose from and to paths are not a prefix
\* of one another, leaves the value that was at from at to, and from no longer
\* resolves; a reached move whose from path does not resolve (or is the root)
\* leaves the tree as it is when ignore_missing holds, and otherwise the step
\* raises.  The tree after the last move of a step that returns is its result.
C17_RenameMovesUnrelatedPaths ==
    RenameWellFormed =>
        /\ last.err = "" => TreeAfter = RenameTreeAfter(Len(RenameMoveList))
        /\ \A i \in DOMAIN RenameMoveList :
              RenameReached(i) =>
                  LET was == GetIn(last.pre, RenameTreeAfter(i - 1), MoveFrom(i)) IN
                  IF was # MISSING /\ MoveFrom(i) # <<>> THEN
                      Unrelated(MoveFrom(i), MoveTo(i)) =>
                          /\ RenameAfter(i).err = ""
                          /\ GetIn(heap, RenameTreeAfter(i), MoveTo(i)) = was
                          /\ GetIn(heap, RenameTreeAfter(i), MoveFrom(i)) = MISSING
                  ELSE IF RenameIgnoreMissing(RenameMoveList[i])
                       THEN /\ RenameAfter(i).err = ""
                            /\ RenameTreeAfter(i) = RenameTreeAfter(i - 1)
                       ELSE RenameAfter(i).err # "" /\ last.err # ""

\* a step of two moves that returns: the second moves on what the first moved
C17_Witness ==
    /\ RenameWellFormed /\ last.err = "" /\ Len(RenameMoveList) = 2
    /\ \A i \in DOMAIN RenameMoveList :
          /\ Unrelated(MoveFrom(i), MoveTo(i))
          /\ GetIn(last.pre, RenameTreeAfter(i - 1), MoveFrom(i)) # MISSING
    /\ IsMap(GetIn(heap, TreeAfter, MoveTo(2)))
    /\ GetIn(heap, TreeAfter, MoveTo(1)) = MISSING

-----------------------------------------------------------------------------
(* One call of a builtin transform on a context of its own, as the unit     *)
(* tests make it: BuiltinTransform(..., transform_name=op, **options)       *)
(* .apply(context).                                                         *)

MaxItems == 3
MaxEntries == 2
MaxKeys == 3

Seqs(set, n) == UNION {[1..k -> set] : k \in 0..n}
Map3(k1, v1, k2, v2, k3, v3) == Put(Map2(k1, v1, k2, v2), k3, v3)

OpsSources == {E, Map1("inv", M(Map1("cpu", S("4"))))}

InitOps ==
    /\ \E sources \in OpsSources : heap = Heap0(sources, E)
    /\ cur = "t0"
    /\ hist = <<>>
    /\ last = NoCall(heap)
    /\ IdleBuild
    /\ IdleDsl

\* a behaviour is one call
NotCalled == IsNone(last.opts)

\* the call: a new instance, then instance.apply(context)
Call(context, options) ==
    /\ LET pre == [heap EXCEPT ![cur] = context]
           self == BuiltinTransform(pre, Some(options.op), Ref("intent"), Ref("src"), options)
       IN Applied(options, pre, apply(pre, cur, self))
    /\ UNCHANGED <<buildVars, dslVars>>

(* merge *)

MergeContexts ==
    {Map3("a", M(Map2("x", S("1"), "n", M(Map1("p", S("1"))))),
          "b", M(Map2("x", S("2"), "n", M(Map1("q", S("2"))))),
          "t", M(Map2("old", S("0"), "x", S("0")))),
     Map3("a", M(Map1("x", S("1"))), "b", S("flat"), "t", S("scalar")),
     Map2("a", M(Map1("n", S("s"))), "b", M(Map1("n", M(Map1("q", S("2"))))))}

MergeEntries ==
    {StringItem(CtxPath(<<"a">>)),
     PathItem(CtxPath(<<"b">>)),
     StringItem(<<"sources", DOT, "inv">>),
     PathItem(<<"intent", DOT, "standards">>),
     LiteralItem(M(Map2("x", S("9"), "n", S("lit")))),
     StringItem(<<"plain">>),
     StringItem(CtxPath(<<"absent">>))}

MergeWith(target, from, inputs, objects, include_existing) ==
    [op |-> "merge", target |-> target, from |-> from, inputs |-> inputs,
     objects |-> objects, include_existing |-> include_existing]

MergeOptions ==
    {MergeWith(target, Some(from), NONE, NONE, include_existing) :
        target \in {CtxPath(<<"t">>), CtxPath(<<>>), CtxPath(<<"a", "n">>)},
        from \in Seqs(MergeEntries, MaxEntries) \ {<<>>},
        include_existing \in {NONE, Some(TRUE)}}
    \cup {MergeWith(CtxPath(<<"t">>), NONE, Some(<<StringItem(CtxPath(<<"a">>))>>),
                    Some(<<StringItem(CtxPath(<<"b">>))>>), Some(FALSE)),
          MergeWith(CtxPath(<<"t">>), NONE, NONE, Some(<<StringItem(CtxPath(<<"b">>))>>), NONE),
          MergeWith(CtxPath(<<"t">>), Some(<<>>), NONE, NONE, NONE),
          MergeWith(CtxPath(<<"t">>), NONE, NONE, NONE, NONE),
          MergeWith(<<>>, Some(<<StringItem(CtxPath(<<"a">>))>>), NONE, NONE, NONE),
          MergeWith(<<"t">>, Some(<<StringItem(CtxPath(<<"a">>))>>), NONE, NONE, NONE),
          MergeWith(CtxPath(<<"t">>), Some(<<PathItem(<<"plain">>)>>), NONE, NONE, NONE),
          MergeWith(CtxPath(<<"t">>), Some(<<StringItem(<<"context", DOT, "a", DOT>>)>>),
                    NONE, NONE, NONE)}

CallMerge ==
    /\ NotCalled
    /\ \E context \in MergeContexts, options \in MergeOptions : Call(context, options)

(* pick *)

PickContexts ==
    {Map2("o", M(Map3("a", S("1"), "b", S("2"), "c", M(Map1("deep", S("3"))))), "keep", S("k")),
     Map1("o", S("scalar")),
     Map2("a", S("top"), "c", S("top"))}

PickWith(path, target, keys, strict) ==
    [op |-> "pick", path |-> path, target |-> target, keys |-> keys, strict |-> strict]

PickOptions ==
    {PickWith(path, target, Some(keys), strict) :
        path \in {CtxPath(<<"o">>), CtxPath(<<>>)},
        target \in {NONE, Some(CtxPath(<<"out", "picked">>)), Some(CtxPath(<<>>))},
        keys \in Seqs({"c", "a", "zz"}, MaxKeys),
        strict \in {NONE, Some(TRUE)}}
    \cup {PickWith(CtxPath(<<"absent">>), NONE, Some(<<"a">>), NONE),
          PickWith(CtxPath(<<"o">>), NONE, NONE, NONE),
          PickWith(<<>>, NONE, Some(<<"a">>), NONE),
          PickWith(CtxPath(<<"o">>), Some(<<"out">>), Some(<<"a">>), NONE),
          PickWith(<<"context", DOT>>, NONE, Some(<<"a">>), NONE),
          PickWith(<<"context", DOT, "o", DOT>>, NONE, Some(<<"a">>), NONE),
          PickWith(<<"context", DOT, "o", DOT, DOT, "c">>, NONE, Some(<<"a">>), NONE),
          PickWith(<<"context", DOT, DOT, "o">>, NONE, Some(<<"a">>), NONE),
          PickWith(<<"contextual", DOT, "o">>, NONE, Some(<<"a">>), NONE),
          PickWith(<<"o", DOT, "context">>, NONE, Some(<<"a">>), NONE),
          PickWith(CtxPath(<<"o">>), Some(<<"context", DOT>>), Some(<<"a">>), NONE),
          PickWith(CtxPath(<<"o", "c">>), NONE, Some(<<"deep">>), NONE)}

CallPick ==
    /\ NotCalled
    /\ \E context \in PickContexts, options \in PickOptions : Call(context, options)

(* sort_stable, dedupe, ref_resolve: arrays *)

Element(id, name, team) == M(Map3("id", id, "name", name, "team", team))
ElementA == Element(S("a"), S("alpha"), S("x"))
ElementB == Element(S("b"), S("alpha"), S("y"))
ElementC == M(Map2("id", S("a"), "name", S("zeta")))
ElementD == M(Map2("name", S("beta"), "team", NULL))
Elements == {ElementA, ElementB, ElementC, ElementD}

\* arrays whose keys are of several types, or are not scalars, or whose items
\* are not objects
OddArrays ==
    {<<M(Map2("id", B(TRUE), "name", S("alpha"))), M(Map2("id", N(1), "name", S("alpha")))>>,
     <<M(Map2("id", N(1), "name", S("b"))), M(Map2("id", F(1), "name", S("a"))),
       M(Map2("id", B(TRUE), "name", S("c")))>>,
     <<M(Map1("id", M(Map1("k", S("x"))))), M(Map1("id", S("{\"k\":\"x\"}")))>>,
     <<M(Map1("id", S("[\"x\"]"))), M(Map1("id", L(<<S("x")>>)))>>,
     <<M(Map2("id", S("u"), "team", M(Map1("k", S("x"))))), ElementA>>,
     <<ElementA, M(Map2("id", S("u"), "team", L(<<S("x")>>)))>>,
     <<ElementA, S("flat")>>,
     <<M(Map2("id", S("n"), "team", N(1))), ElementA>>}

Scalars == {S("b"), S("a"), N(1), B(TRUE)}
OddScalarArrays == {<<NULL, F(1), N(1)>>, <<S("a"), NULL, B(FALSE), N(0)>>}

Teams == M(Map1("x", M(Map1("lead", S("ann")))))
ArrayContext(items, tags) == Map3("items", L(items), "tags", L(tags), "teams", Teams)

ArrayContexts ==
    {ArrayContext(items, <<S("b"), S("a")>>) : items \in Seqs(Elements, MaxItems) \cup OddArrays}
    \cup {ArrayContext(<<ElementA>>, tags) : tags \in Seqs(Scalars, MaxItems) \cup OddScalarArrays}
    \cup {Map2("items", S("flat"), "teams", Teams),
          Map2("items", L(<<ElementA>>), "teams", S("flat"))}

SortRule(path, order, direction, by) ==
    [op |-> "sort_stable", rules |-> NONE, path |-> path, order |-> order,
     direction |-> direction, by |-> by]
SortRules(rules) ==
    [op |-> "sort_stable", rules |-> Some(rules), path |-> NONE, order |-> NONE,
     direction |-> NONE, by |-> NONE]

SortOptions ==
    {SortRule(Some(CtxPath(<<"items">>)), order, NONE, Some(by)) :
        order \in {NONE, Some("asc"), Some("desc"), Some(" DESC ")},
        by \in {<<"name">>, <<"id">>}}
    \cup {SortRule(Some(CtxPath(<<"tags">>)), order, NONE, NONE) :
             order \in {NONE, Some("desc")}}
    \cup {SortRule(Some(CtxPath(<<"items">>)), NONE, Some("desc"), Some(<<"name">>)),
          SortRule(Some(CtxPath(<<"items">>)), Some("sideways"), NONE, Some(<<"name">>)),
          SortRule(Some(CtxPath(<<"items">>)), NONE, NONE, Some(<<"name", DOT>>)),
          SortRule(Some(CtxPath(<<"teams">>)), NONE, NONE, NONE),
          SortRule(Some(<<>>), NONE, NONE, NONE),
          SortRule(NONE, NONE, NONE, Some(<<"name">>)),
          SortRules(<<>>),
          SortRules(<<SortRule(Some(CtxPath(<<"items">>)), Some("desc"), NONE, Some(<<"name">>)),
                      SortRule(Some(CtxPath(<<"tags">>)), NONE, NONE, NONE)>>),
          SortRules(<<SortRule(Some(CtxPath(<<"tags">>)), NONE, NONE, NONE),
                      SortRule(Some(CtxPath(<<"absent">>)), NONE, NONE, NONE)>>)}

CallSortStable ==
    /\ NotCalled
    /\ \E context \in ArrayContexts, options \in SortOptions : Call(context, options)

DedupeRule(path, by, keep) ==
    [op |-> "dedupe", rules |-> NONE, path |-> path, by |-> by, keep |-> keep]

DedupeOptions ==
    {DedupeRule(Some(CtxPath(<<"items">>)), by, keep) :
        by \in {NONE, Some(<<"id">>), Some(<<"name">>)},
        keep \in {NONE, Some("first"), Some("last"), Some("Last")}}
    \cup {DedupeRule(Some(CtxPath(<<"tags">>)), NONE, keep) : keep \in {NONE, Some("last")}}
    \cup {DedupeRule(Some(CtxPath(<<"items">>)), Some(<<"id">>), Some("middle")),
          DedupeRule(Some(CtxPath(<<"items">>)), Some(<<DOT, "id">>), NONE),
          DedupeRule(Some(CtxPath(<<"teams">>)), NONE, NONE),
          DedupeRule(NONE, Some(<<"id">>), NONE),
          [op |-> "dedupe", path |-> NONE, by |-> NONE, keep |-> NONE,
           rules |-> Some(<<DedupeRule(Some(CtxPath(<<"items">>)), Some(<<"id">>), NONE),
                            DedupeRule(Some(CtxPath(<<"tags">>)), NONE, Some("last"))>>)]}

CallDedupe ==
    /\ NotCalled
    /\ \E context \in ArrayContexts, options \in DedupeOptions : Call(context, options)

RefRule(items, lookup, ref_key, target_key, required, copy) ==
    [op |-> "ref_resolve", rules |-> NONE, items |-> items, lookup |-> lookup,
     ref_key |-> ref_key, target_key |-> target_key, required |-> required, copy |-> copy]

RefResolveOptions ==
    {RefRule(Some(CtxPath(<<"items">>)), Some(CtxPath(<<"teams">>)), Some(<<"team">>),
             Some(target_key), required, NONE) :
        target_key \in {<<"team_info">>, <<"name">>, <<"name", DOT, "team">>, <<"team">>},
        required \in {NONE, Some(TRUE)}}
    \cup {RefRule(Some(CtxPath(<<"items">>)), Some(CtxPath(<<"teams">>)), Some(<<"team">>),
                  Some(<<"team_info">>), Some(FALSE), Some(FALSE)),
          RefRule(Some(CtxPath(<<"items">>)), Some(CtxPath(<<"teams">>)), Some(<<"id">>),
                  Some(<<"team_info">>), NONE, NONE),
          RefRule(Some(CtxPath(<<"tags">>)), Some(CtxPath(<<"teams">>)), Some(<<"team">>),
                  Some(<<"team_info">>), NONE, NONE),
          RefRule(Some(CtxPath(<<"items">>)), Some(CtxPath(<<"tags">>)), Some(<<"team">>),
                  Some(<<"team_info">>), NONE, NONE),
          RefRule(Some(CtxPath(<<"items">>)), Some(CtxPath(<<"teams">>)), Some(<<>>),
                  Some(<<"team_info">>), NONE, NONE),
          RefRule(Some(CtxPath(<<"items">>)), NONE, Some(<<"team">>),
                  Some(<<"team_info">>), NONE, NONE)}

CallRefResolve ==
    /\ NotCalled
    /\ \E context \in ArrayContexts, options \in RefResolveOptions : Call(context, options)

(* coerce, validate_schema, and apply by name *)

CoerceContexts ==
    {Map1("v", v) :
        v \in {S("1"), S(" 42 "), S("x"), S(" Yes "), S("OFF"), S("2024-01-02"),
               S("2024-01-02T03:04:05+02:00"), N(1), N(7), F(1), B(TRUE), NULL,
               M(Map1("k", L(<<S("x"), N(1)>>)))}}

CoerceRule(path, type, ignore_missing) ==
    [op |-> "coerce", rules |-> NONE, path |-> path, type |-> type,
     ignore_missing |-> ignore_missing]

CoerceOptions ==
    {CoerceRule(Some(CtxPath(<<"v">>)), Some(type), NONE) :
        type \in {"bool", "boolean", "int", " Integer ", "float", "number", "string",
                  "timestamp", "decimal"}}
    \cup {CoerceRule(Some(CtxPath(<<"absent">>)), Some("int"), ignore_missing) :
             ignore_missing \in {NONE, Some(FALSE)}}
    \cup {CoerceRule(Some(CtxPath(<<"v">>)), NONE, NONE),
          [op |-> "coerce", path |-> NONE, type |-> NONE, ignore_missing |-> Some(FALSE),
           rules |-> Some(<<CoerceRule(Some(CtxPath(<<"v">>)), Some("string"), NONE),
                            CoerceRule(Some(CtxPath(<<"absent">>)), Some("int"), Some(TRUE)),
                            CoerceRule(Some(CtxPath(<<"gone">>)), Some("int"), NONE)>>)]}

CallCoerce ==
    /\ NotCalled
    /\ \E context \in CoerceContexts, options \in CoerceOptions : Call(context, options)

ValidateContexts ==
    {Map1("config", M(E)), Map1("config", S("x")), Map2("config", M(E), "extra", S("1")), E}

ValidateOptions ==
    {[op |-> "validate_schema", schema |-> schema, schema_path |-> schema_path] :
        schema \in {NONE, Some(NoFile), Some(NotJsonFile),
                    Some(JsonFile(Schema({"config"}, ObjectProps({"config"}), FALSE)))},
        schema_path \in {NONE, Some(JsonFile(Schema({}, ObjectProps({"config"}), TRUE)))}}

CallValidateSchema ==
    /\ NotCalled
    /\ \E context \in ValidateContexts, options \in ValidateOptions : Call(context, options)

\* names that are not registered, the empty name, and the four operations above
TransformNames == {"unknown_transform", "Mount", "", "sort", "canonicalize_all"}

ByNameOptions ==
    {[op |-> name] : name \in TransformNames \cup {"canonicalize"}}
    \cup {options \in MountOptions : options.source_id = "inv"}
    \cup DefaultsOptions \cup RenameOptions

CallByName ==
    /\ NotCalled
    /\ \E context \in PickContexts \cup ValidateContexts, options \in ByNameOptions :
          Call(context, options)

NextOps ==
    \/ CallMerge
    \/ CallPick
    \/ CallSortStable
    \/ CallDedupe
    \/ CallRefResolve
    \/ CallCoerce
    \/ CallValidateSchema
    \/ CallByName

SpecOps == InitOps /\ [][NextOps]_vars

-----------------------------------------------------------------------------
(* Claims about one call.                                                   *)

ReturnedOp(name) == CalledOp(name) /\ last.err = ""
Self == BuiltinTransform(last.pre, Some(last.opts.op), Ref("intent"), Ref("src"), last.opts)
TargetAfter(path) == Content(heap, _get_context_value(heap, last.out, path))
TargetBefore(path) == Content(last.pre, _get_context_value(last.pre, last.in, path))

MergeItems ==
    IF ~IsNone(last.opts.from) THEN last.opts.from.some
    ELSE IF ~IsNone(last.opts.inputs) THEN last.opts.inputs.some
    ELSE last.opts.objects.some
MergeTarget == _parse_context_path(last.opts.target).parts
MergeEntry(i) ==
    _resolve_item_reference(last.pre, MergeItems[i], last.in, Self.intent, Self.sources).val
MergeStart ==
    IF last.opts.include_existing = Some(TRUE) /\ TargetBefore(MergeTarget) # MISSING
    THEN TargetBefore(MergeTarget)
    ELSE M(E)

\* the later value wins; two mappings are merged key by key
RECURSIVE LaterWins(_, _)
LaterWins(earlier, later) ==
    IF ~IsMap(earlier) \/ ~IsMap(later) THEN later
    ELSE M([k \in DOMAIN earlier.m \cup DOMAIN later.m |->
              IF k \notin DOMAIN later.m THEN earlier.m[k]
              ELSE IF k \notin DOMAIN earlier.m THEN later.m[k]
              ELSE LaterWins(earlier.m[k], later.m[k])])

\* the fold over the first n entries
RECURSIVE LeftFold(_)
LeftFold(n) == IF n = 0 THEN MergeStart ELSE LaterWins(LeftFold(n - 1), MergeEntry(n))

\* C12: a merge step that returns has written at target the left fold of deep
\* merge over its resolved entries in list order, from an empty mapping, or from
\* the value at target when include_existing is true and a value exists there:
\* the later entry wins, mappings are merged key by key, and a non-mapping on
\* either side is replaced by the incoming value.
C12_MergeIsLeftFold ==
    ReturnedOp("merge") => TargetAfter(MergeTarget) = LeftFold(Len(MergeItems))

\* two mapping entries that set one key differently and share a nested mapping,
\* merged onto the value that was at target
C12_Witness ==
    /\ ReturnedOp("merge")
    /\ last.opts.include_existing = Some(TRUE)
    /\ IsMap(MergeStart) /\ "old" \in DOMAIN MergeStart.m
    /\ Len(MergeItems) = 2
    /\ IsMap(MergeEntry(1)) /\ IsMap(MergeEntry(2))
    /\ \E k \in DOMAIN MergeEntry(1).m \cap DOMAIN MergeEntry(2).m :
          /\ IsScalar(MergeEntry(1).m[k])
          /\ MergeEntry(1).m[k] # MergeEntry(2).m[k]
          /\ TargetAfter(MergeTarget).m[k] = MergeEntry(2).m[k]
    /\ \E k \in DOMAIN MergeEntry(1).m \cap DOMAIN MergeEntry(2).m :
          /\ IsMap(MergeEntry(1).m[k]) /\ IsMap(MergeEntry(2).m[k])
          /\ DOMAIN TargetAfter(MergeTarget).m[k].m
                = DOMAIN MergeEntry(1).m[k].m \cup DOMAIN MergeEntry(2).m[k].m
    /\ "old" \in DOMAIN TargetAfter(MergeTarget).m

RulesOf(required) == _extract_rules(last.opts, required).rules
RulePath(rule) == _parse_context_path(rule.path.some).parts

Rearrangements(n) == {p \in [1..n -> 1..n] : \A i, j \in 1..n : p[i] = p[j] => i = j}

SortDescending(rule) ==
    LET order == IF ~IsNone(rule.order) THEN rule.order.some
                 ELSE IF ~IsNone(rule.direction) THEN rule.direction.some
                 ELSE "asc"
    IN order \in {"desc", " DESC "}
\* the sort key of an element: MISSING when the element has none
SortKey(rule, element) ==
    IF IsNone(rule.by) THEN element
    ELSE GetIn(heap, element, _split_relative_path(rule.by.some).parts)
KeyBefore(a, b) == TokenLess(_sort_token(a), _sort_token(b))

\* out is the array `in` in the order of the claim, by way of the permutation p
SortedBy(rule, in, out, p) ==
    /\ \A i \in DOMAIN out : out[i] = in[p[i]]
    /\ \A i, j \in DOMAIN out :
          i < j =>
             LET ki == SortKey(rule, out[i])
                 kj == SortKey(rule, out[j])
             IN IF kj = MISSING THEN ki = MISSING => p[i] < p[j]
                ELSE /\ ki # MISSING
                     /\ IF SortDescending(rule) THEN ~KeyBefore(ki, kj) ELSE ~KeyBefore(kj, ki)
                     /\ (~KeyBefore(ki, kj) /\ ~KeyBefore(kj, ki)) => p[i] < p[j]

\* C14: sort_stable replaces the array at path by the elements whose sort key is
\* present, ordered by key in the requested direction with elements of equal key
\* in their input order (asc and desc), followed by the elements whose key is
\* missing in their input order; the result is a permutation of the input.
C14_SortIsStablePermutation ==
    ReturnedOp("sort_stable") =>
        \A r \in DOMAIN RulesOf({"path"}) :
            LET rule == RulesOf({"path"})[r]
                in == TargetBefore(RulePath(rule)).l
                out == TargetAfter(RulePath(rule)).l
            IN /\ Len(out) = Len(in)
               /\ \E p \in Rearrangements(Len(in)) : SortedBy(rule, in, out, p)

\* a descending sort that moved an element, of an array with two elements of
\* equal key and an element without the key in front of one that has it
C14_Witness ==
    /\ ReturnedOp("sort_stable")
    /\ Len(RulesOf({"path"})) = 1
    /\ LET rule == RulesOf({"path"})[1]
           in == TargetBefore(RulePath(rule)).l
           out == TargetAfter(RulePath(rule)).l
       IN /\ SortDescending(rule)
          /\ out # in
          /\ \E i, j \in DOMAIN in :
                /\ i < j
                /\ in[i] # in[j]
                /\ SortKey(rule, in[i]) # MISSING
                /\ SortKey(rule, in[i]) = SortKey(rule, in[j])
          /\ \E i, j \in DOMAIN in :
                i < j /\ SortKey(rule, in[i]) = MISSING /\ SortKey(rule, in[j]) # MISSING

DedupeKey(rule, element) ==
    IF IsNone(rule.by) THEN element
    ELSE GetIn(heap, element, _split_relative_path(rule.by.some).parts)
KeepsLast(rule) == ~IsNone(rule.keep) /\ rule.keep.some \in {"last", "Last"}
NumberOf(v) == IF IsFloat(v) THEN v.f ELSE v.n
\* equal as JSON values: 1 and 1.0 are one number
SameValue(a, b) ==
    \/ a = b
    \/ (IsNumber(a) \/ IsFloat(a)) /\ (IsNumber(b) \/ IsFloat(b)) /\ NumberOf(a) = NumberOf(b)

\* the elements of `in` at the indices of kept, in input order
RECURSIVE Subsequence(_, _, _)
Subsequence(in, kept, i) ==
    IF i > Len(in) THEN <<>>
    ELSE (IF i \in kept THEN <<in[i]>> ELSE <<>>) \o Subsequence(in, kept, i + 1)

\* the indices the claim keeps
KeptIndices(rule, in) ==
    {i \in DOMAIN in :
        LET same == {j \in DOMAIN in : /\ DedupeKey(rule, in[j]) # MISSING
                                       /\ SameValue(DedupeKey(rule, in[j]),
                                                    DedupeKey(rule, in[i]))}
        IN \/ DedupeKey(rule, in[i]) = MISSING
           \/ IF KeepsLast(rule) THEN \A j \in same : j <= i ELSE \A j \in same : i <= j}

\* C16: dedupe keeps, for each distinct key value, exactly one element: the first
\* occurrence when keep=first (default) and the last when keep=last; elements
\* whose key is absent are all kept; the kept elements are in the same relative
\* order as in the input (the result is a subsequence of the input).
C16_DedupeKeepsOnePerKey ==
    ReturnedOp("dedupe") =>
        \A r \in DOMAIN RulesOf({"path"}) :
            LET rule == RulesOf({"path"})[r]
                in == TargetBefore(RulePath(rule)).l
                out == TargetAfter(RulePath(rule)).l
            IN out = Subsequence(in, KeptIndices(rule, in), 1)

PickPath == _parse_context_path(last.opts.path)
PickTarget ==
    IF IsNone(last.opts.target) THEN PickPath ELSE _parse_context_path(last.opts.target.some)
PickSource == TargetBefore(PickPath.parts)
\* a pick call whose options are well formed and whose path is an object
PickApplies ==
    /\ CalledOp("pick")
    /\ last.opts.path # <<>> /\ PickPath.ok /\ PickTarget.ok
    /\ ~IsNone(last.opts.keys)
    /\ IsMap(PickSource)
PickKeys == last.opts.keys.some
PickMissing == \E i \in DOMAIN PickKeys : PickKeys[i] \notin DOMAIN PickSource.m
FirstListed(key) == CHOOSE i \in DOMAIN PickKeys : PickKeys[i] = key /\ \A j \in 1..(i - 1) : PickKeys[j] # key

\* C18: pick writes at target (path when no target is given) a mapping whose
\* keys are exactly the listed keys that exist in the object at path, each with
\* the value of that object, in the order the keys are listed; a listed key that
\* is missing is skipped, unless strict is true: then the step raises and the
\* tree is unchanged.
C18_PickKeepsListedKeys ==
    PickApplies =>
        IF last.opts.strict = Some(TRUE) /\ PickMissing
        THEN last.err # "" /\ TreeAfter = TreeBefore
        ELSE /\ last.err = ""
             /\ LET picked == TargetAfter(PickTarget.parts) IN
                /\ IsMap(picked)
                /\ DOMAIN picked.m = {PickKeys[i] : i \in DOMAIN PickKeys} \cap DOMAIN PickSource.m
                /\ \A key \in DOMAIN picked.m : picked.m[key] = PickSource.m[key]
                /\ {last.order[i] : i \in DOMAIN last.order} = DOMAIN picked.m
                /\ \A i, j \in DOMAIN last.order :
                      i < j => FirstListed(last.order[i]) < FirstListed(last.order[j])

\* a pick that lists an existing key twice around another and a missing key,
\* not in the order of the object's keys
C18_Witness ==
    /\ PickApplies /\ last.err = ""
    /\ PickKeys = <<"c", "a", "c">> \/ PickKeys = <<"c", "zz", "a">>
    /\ last.order = <<"c", "a">>
    /\ DOMAIN PickSource.m = {"a", "b", "c"}

RefOptionsOk ==
    /\ CalledOp("ref_resolve")
    /\ IsNone(last.opts.rules)
    /\ \A key \in {"items", "lookup", "ref_key", "target_key"} :
          ~IsNone(last.opts[key]) /\ last.opts[key].some # <<>>
    /\ _parse_context_path(last.opts.items.some).ok
    /\ _parse_context_path(last.opts.lookup.some).ok
    /\ _split_relative_path(last.opts.ref_key.some).ok
    /\ _split_relative_path(last.opts.target_key.some).ok
RefItemsPath == _parse_context_path(last.opts.items.some).parts
RefItems == TargetBefore(RefItemsPath)
RefLookup == TargetBefore(_parse_context_path(last.opts.lookup.some).parts)
RefKey == _split_relative_path(last.opts.ref_key.some).parts
RefTargetKey == _split_relative_path(last.opts.target_key.some).parts
RefRequired == last.opts.required = Some(TRUE)
\* a ref_resolve call of one rule on an array of mappings and a lookup mapping
RefApplies ==
    /\ RefOptionsOk
    /\ IsList(RefItems) /\ \A i \in DOMAIN RefItems.l : IsMap(RefItems.l[i])
    /\ IsMap(RefLookup)
RefOf(item) == GetIn(heap, item, RefKey)
\* the ref is there, not null, and a key of the lookup mapping
Resolves(item) ==
    /\ RefOf(item) \notin {MISSING, NULL}
    /\ IsScalar(RefOf(item)) /\ RefOf(item).s \in DOMAIN RefLookup.m

\* C19: ref_resolve, for every item of the array at items: when the item's
\* ref_key is absent or null, or its value is not a key of the lookup mapping,
\* the item is left unchanged if required is false and the step raises if
\* required is true; otherwise the item's target_key is set to the lookup value
\* for that ref and no other key of the item changes.
C19_RefResolvePerItem ==
    RefApplies =>
        IF RefRequired /\ \E i \in DOMAIN RefItems.l : ~Resolves(RefItems.l[i])
        THEN last.err # ""
        ELSE /\ last.err = ""
             /\ LET out == TargetAfter(RefItemsPath).l IN
                /\ Len(out) = Len(RefItems.l)
                /\ \A i \in DOMAIN out :
                      LET item == RefItems.l[i] IN
                      IF ~Resolves(item) THEN out[i] = item
                      ELSE /\ GetIn(heap, out[i], RefTargetKey) = RefLookup.m[RefOf(item).s]
                           /\ \A key \in (DOMAIN item.m \cup DOMAIN out[i].m) \ {RefTargetKey[1]} :
                                 /\ key \in DOMAIN item.m /\ key \in DOMAIN out[i].m
                                 /\ out[i].m[key] = item.m[key]

\* apply went into an operation: whatever it raised, it was not the registry's error
Dispatched == last.err # "Unknown builtin transform"

\* C20: the builtin transform names are exactly the eleven fixed names:
\* is_builtin_transform(name) is true if and only if
\* BuiltinTransform(transform_name=name).apply dispatches to an operation, and
\* for every other name apply raises an error mentioning "Unknown builtin
\* transform" without touching the tree.
C20_RegistryIsDispatch ==
    Called =>
        /\ is_builtin_transform(last.opts.op) <=> Dispatched
        /\ ~is_builtin_transform(last.opts.op) => (~Dispatched /\ heap = last.pre)

\* a path string that is `context`, or `context.` followed by one or more
\* non-empty segments with one dot between them
WellFormedPath(toks) ==
    \/ toks = <<"context">>
    \/ /\ Len(toks) >= 3 /\ Len(toks) % 2 = 1
       /\ toks[1] = "context"
       /\ \A i \in 2..Len(toks) :
             IF i % 2 = 0 THEN toks[i] = DOT ELSE toks[i] # DOT /\ toks[i] # ""
PickPathsGiven ==
    {last.opts.path} \cup (IF IsNone(last.opts.target) THEN {} ELSE {last.opts.target.some})
RejectedPath == last.err = "Path must start with 'context'"

\* C24: a context path is accepted only if it is `context` or `context.`
\* followed by one or more non-empty dot-separated segments: a pick call whose
\* path or target has an empty segment (a trailing dot as in "context." or
\* "context.a.", a double dot) or does not start with context raises, and a
\* call whose paths are well formed is not rejected for its paths.
C24_ContextPathAccepted ==
    (CalledOp("pick") /\ last.opts.path # <<>>) =>
        ((\A toks \in PickPathsGiven : WellFormedPath(toks)) <=> ~RejectedPath)

\* the same, leaving out the string "context."
C24_ExceptContextDot ==
    (CalledOp("pick") /\ last.opts.path # <<>> /\ <<"context", DOT>> \notin PickPathsGiven) =>
        ((\A toks \in PickPathsGiven : WellFormedPath(toks)) <=> ~RejectedPath)

\* "context." is taken as the root
C24_ContextDotIsRoot ==
    /\ ReturnedOp("pick") /\ last.opts.path = <<"context", DOT>>
    /\ DOMAIN TreeAfter.m = {"a"}

\* the elements of the array whose key value equals the key value of no other
\* element (an element without the key is not one of them)
WithOwnKey(rule, in) ==
    {i \in DOMAIN in :
        /\ DedupeKey(rule, in[i]) # MISSING
        /\ \A j \in DOMAIN in \ {i} :
              \/ DedupeKey(rule, in[j]) = MISSING
              \/ ~SameValue(DedupeKey(rule, in[j]), DedupeKey(rule, in[i]))}
\* two key values of the array that differ and have one marker
MarkersClash(rule, in) ==
    \E i, j \in DOMAIN in :
        /\ DedupeKey(rule, in[i]) # MISSING /\ DedupeKey(rule, in[j]) # MISSING
        /\ ~SameValue(DedupeKey(rule, in[i]), DedupeKey(rule, in[j]))
        /\ _dedupe_marker(DedupeKey(rule, in[i])) = _dedupe_marker(DedupeKey(rule, in[j]))

\* C26: dedupe treats two elements as duplicates only when their key values are
\* equal: an element whose key value differs from the key value of every other
\* element of the array (a list and a string, values of different types) is in
\* the result.
C26_DifferingKeysAllKept ==
    ReturnedOp("dedupe") =>
        \A r \in DOMAIN RulesOf({"path"}) :
            LET rule == RulesOf({"path"})[r]
                in == TargetBefore(RulePath(rule)).l
                out == TargetAfter(RulePath(rule)).l
            IN \A i \in WithOwnKey(rule, in) : \E k \in DOMAIN out : out[k] = in[i]

\* the same for arrays in which no two differing key values have one marker
C26_KeptUnlessMarkersClash ==
    ReturnedOp("dedupe") =>
        \A r \in DOMAIN RulesOf({"path"}) :
            LET rule == RulesOf({"path"})[r]
                in == TargetBefore(RulePath(rule)).l
                out == TargetAfter(RulePath(rule)).l
            IN ~MarkersClash(rule, in) =>
                  \A i \in WithOwnKey(rule, in) : \E k \in DOMAIN out : out[k] = in[i]

\* a list-valued key and the string of its JSON text: one element is dropped
C26_ListAndStringCollapsed ==
    /\ ReturnedOp("dedupe") /\ last.opts.by = Some(<<"id">>)
    /\ TargetBefore(<<"items">>).l = <<M(Map1("id", S("[\"x\"]"))), M(Map1("id", L(<<S("x")>>)))>>
    /\ Len(TargetAfter(<<"items">>).l) = 1

-----------------------------------------------------------------------------
(* The build driver (core/build.py): build_events, one action per stage.    *)
(* bcfg is the project on disk and the command line: opactx.yaml's          *)
(* transform steps and sources, the intent files, the schema file, dry_run. *)

Event(kind, detail) == <<kind, detail>>
\* events.py: StageCompleted carries a status, CommandCompleted ok and exit_code
StageCompleted(stage_id, status) == <<"StageCompleted", stage_id, status>>
CommandCompleted(ok, exit_code) == <<"CommandCompleted", ok, exit_code>>

TransformStep(name, type, with_) == [name |-> name, type |-> type, with_ |-> with_]
CanonicalizeStep == TransformStep("canonicalize", "builtin", [op |-> "canonicalize"])
MountInventoryStep ==
    TransformStep("mount", "builtin",
                  [op |-> "mount", source_id |-> "inventory",
                   target |-> CtxPath(<<"inventory">>), strategy |-> NONE])
DefaultsEnvStep ==
    TransformStep("defaults", "builtin",
                  DefaultsValues(<<<<CtxPath(<<"env">>), S("dev")>>>>))
PluginStep == TransformStep("enrich", "plugin", [op |-> "enrich"])

TransformConfigs ==
    {<<>>,
     <<CanonicalizeStep>>,
     <<MountInventoryStep, DefaultsEnvStep>>,
     <<CanonicalizeStep, DefaultsEnvStep>>,
     <<CanonicalizeStep, CanonicalizeStep>>,
     <<PluginStep>>,
     <<PluginStep, CanonicalizeStep>>}

\* a configured source with what its fetch returns (NONE: the fetch raises)
Source(name, data) == [name |-> name, data |-> data]
Inventory == M(Map1("resources", L(<<S("i-123"), S("i-456")>>)))
SourceConfigs ==
    {<<>>,
     <<Source("inventory", Some(Inventory))>>,
     <<Source("inventory", Some(M(E)))>>,
     <<Source("inventory", NONE)>>,
     <<Source("inventory", Some(Inventory)), Source("extra", NONE)>>}

\* a JSON Schema of the shape the projects use: required, properties with a
\* type each, additionalProperties
ContextSchema ==
    Schema({"standards", "exceptions", "sources"},
           ObjectProps({"standards", "exceptions", "sources"}), FALSE)
PipelineSchema ==
    Schema({"standards", "exceptions", "sources", "inventory", "env"},
           Put(ObjectProps({"standards", "exceptions", "sources", "inventory"}),
               "env", "string"),
           FALSE)
\* the file at config.schema: absent, text that is not JSON, a JSON schema, or
\* a YAML DSL document (which is not JSON text); `schema` is the JSON schema the
\* file holds or compiles to
SchemaTexts == {"missing", "not json", "schema", "dsl"}

Projects ==
    [config_ok : BOOLEAN,
     transforms : TransformConfigs,
     sources : SourceConfigs,
     standards : {NONE, Some(E), Some(Standards0)},
     schema_file : SchemaTexts,
     schema : {ContextSchema, PipelineSchema},
     dry_run : BOOLEAN,
     write_ok : BOOLEAN]

\* the projects that differ in something the run reads
ProjectChoices ==
    {p \in Projects :
        /\ (p.schema_file # "schema" => p.schema = ContextSchema)
        /\ (~p.config_ok =>
                /\ p.transforms = <<>> /\ p.sources = <<>> /\ p.standards = Some(E)
                /\ p.schema_file = "schema" /\ p.schema = ContextSchema
                /\ p.dry_run /\ p.write_ok)
        /\ (p.dry_run => p.write_ok)}

InitBuild ==
    /\ heap = [Heap0(E, E) EXCEPT !.intent = E, !.std = E]
    /\ cur = "t0"
    /\ hist = <<>>
    /\ last = NoCall(heap)
    /\ bpc = "start"
    /\ bcfg \in ProjectChoices
    /\ events = <<>>
    /\ canonical = NONE
    /\ bundle = NONE
    /\ IdleDsl

Emit(evs) == events' = events \o evs
\* a failed stage after which the command still reports success
FailedButOk(stage) == <<Event("StageFailed", stage), CommandCompleted(TRUE, 0)>>
\* the two events every stage failure ends the run with
Failed(stage) == <<Event("StageFailed", stage), CommandCompleted(FALSE, 2)>>

CommandStart ==
    /\ bpc = "start"
    /\ Emit(<<Event("CommandStarted", "build")>>)
    /\ bpc' = "load_config"
    /\ UNCHANGED <<engineVars, bcfg, canonical, bundle, dslVars>>

StageLoadConfig ==
    /\ bpc = "load_config"
    /\ IF bcfg.config_ok
       THEN /\ Emit(<<Event("StageStarted", "load_config"),
                      StageCompleted("load_config", "success")>>)
            /\ bpc' = "load_intent"
       ELSE /\ Emit(<<Event("StageStarted", "load_config")>> \o Failed("load_config"))
            /\ bpc' = "done"
    /\ UNCHANGED <<engineVars, bcfg, canonical, bundle, dslVars>>

\* intent = {"standards": standards, "exceptions": exceptions}
StageLoadIntent ==
    /\ bpc = "load_intent"
    /\ IF IsNone(bcfg.standards)
       THEN /\ Emit(<<Event("StageStarted", "load_intent")>> \o Failed("load_intent"))
            /\ bpc' = "done"
            /\ UNCHANGED heap
       ELSE /\ Emit(<<Event("StageStarted", "load_intent"),
                      StageCompleted("load_intent", "success")>>)
            /\ bpc' = "fetch_sources"
            /\ heap' = [heap EXCEPT !.intent = Intent0, !.std = bcfg.standards.some,
                                    !.exc = E]
    /\ UNCHANGED <<cur, hist, last, bcfg, canonical, bundle, dslVars>>

\* the loop of _run_stage_fetch_sources: the events and the sources dict
RECURSIVE FetchLoop(_, _, _)
FetchLoop(configured, evs, sources) ==
    IF configured = <<>>
    THEN [events |-> Append(evs, StageCompleted("fetch_sources", "success")),
          value |-> sources, failed |-> FALSE]
    ELSE LET source == Head(configured) IN
         IF IsNone(source.data)
         THEN [events |-> evs \o <<Event("SourceFetchStarted", source.name),
                                   Event("SourceFetchFailed", source.name),
                                   Event("StageFailed", "fetch_sources")>>,
               value |-> E, failed |-> TRUE]
         ELSE FetchLoop(Tail(configured),
                        evs \o <<Event("SourceFetchStarted", source.name),
                                 Event("SourceFetchCompleted", source.name),
                                 Event("StageProgress", "fetch_sources")>>,
                        Put(sources, source.name, source.data.some))

_run_stage_fetch_sources(config) ==
    FetchLoop(config.sources, <<Event("StageStarted", "fetch_sources")>>, E)

StageFetchSources ==
    /\ bpc = "fetch_sources"
    /\ LET sources_result == _run_stage_fetch_sources(bcfg) IN
       IF sources_result.failed
       THEN /\ Emit(sources_result.events \o <<CommandCompleted(FALSE, 2)>>)
            /\ bpc' = "done"
            /\ UNCHANGED heap
       ELSE /\ Emit(sources_result.events)
            /\ bpc' = "normalize"
            /\ heap' = [heap EXCEPT !.src = sources_result.value]
    /\ UNCHANGED <<cur, hist, last, bcfg, canonical, bundle, dslVars>>

\* plugins/registry.py: the entry point "builtin" is BuiltinTransform; any
\* other type is not installed
load_transform(kind) == IF kind = "builtin" THEN "BuiltinTransform" ELSE "ValueError"

\* the loop of _normalize over config.transforms; data is the id of `value`
RECURSIVE NormalizeLoop(_, _, _)
NormalizeLoop(h, data, transforms) ==
    IF transforms = <<>> THEN [h |-> h, out |-> data, err |-> ""]
    ELSE LET transform == Head(transforms) IN
         IF transform.type = "builtin" /\ transform.name # "canonicalize"
         THEN [h |-> h, out |-> "",
               err |-> "Only the builtin canonicalize transform is supported in v1."]
         ELSE IF load_transform(transform.type) = "ValueError"
         THEN [h |-> h, out |-> "", err |-> "Unknown transform type"]
         ELSE LET instance == BuiltinTransform(h, NONE, NONE, NONE, transform.with_)
                  Continue(res) ==
                      IF res.err # "" THEN res
                      ELSE NormalizeLoop(res.h, res.out, Tail(transforms))
              IN Continue(apply(h, data, instance))

\* _normalize(project_dir, config, intent, sources): intent and sources are the
\* objects "intent" and "src" of the heap
_normalize(h, config) ==
    IF config.transforms = <<>>
    THEN [h |-> [h EXCEPT !.t0 = canonicalize(h, Ref("intent"), Ref("src"))],
          out |-> "t0", err |-> ""]
    ELSE NormalizeLoop([h EXCEPT !.t0 = Map2("intent", Ref("intent"), "sources", Ref("src"))],
                       "t0", config.transforms)

StageNormalize ==
    /\ bpc = "normalize"
    /\ LET normalize_result == _normalize(heap, bcfg) IN
       IF normalize_result.err # ""
       THEN /\ Emit(<<Event("StageStarted", "normalize")>> \o Failed("normalize"))
            /\ bpc' = "done"
            /\ UNCHANGED <<heap, cur, canonical>>
       ELSE /\ Emit(<<Event("StageStarted", "normalize"),
                      StageCompleted("normalize", "success")>>)
            /\ bpc' = "validate_schema"
            /\ heap' = normalize_result.h
            /\ cur' = normalize_result.out
            /\ canonical' = Some(Content(normalize_result.h, Ref(normalize_result.out)))
    /\ UNCHANGED <<hist, last, bcfg, bundle, dslVars>>

\* Draft202012Validator(schema).iter_errors(instance) for the keywords required,
\* properties/type and additionalProperties: the paths in error

_run_stage_validate_schema(config, value) ==
    LET started == <<Event("StageStarted", "validate_schema")>> IN
    IF config.schema_file # "schema"
    THEN [events |-> started \o <<Event("SchemaInvalid", config.schema_file),
                                  Event("StageFailed", "validate_schema")>>,
          failed |-> TRUE]
    ELSE IF iter_errors(config.schema, value) # {}
    THEN [events |-> started \o <<Event("SchemaLoaded", "schema"),
                                  Event("SchemaValidationFailed", "schema"),
                                  Event("StageFailed", "validate_schema")>>,
          failed |-> TRUE]
    ELSE [events |-> started \o <<Event("SchemaLoaded", "schema"),
                                  Event("SchemaValidationPassed", "schema"),
                                  StageCompleted("validate_schema", "success")>>,
          failed |-> FALSE]

StageValidateSchema ==
    /\ bpc = "validate_schema"
    /\ LET schema_result == _run_stage_validate_schema(bcfg, canonical.some) IN
       IF schema_result.failed
       THEN /\ Emit(schema_result.events \o <<CommandCompleted(FALSE, 2)>>)
            /\ bpc' = "done"
       ELSE /\ Emit(schema_result.events)
            /\ bpc' = "write_bundle"
    /\ UNCHANGED <<engineVars, bcfg, canonical, bundle, dslVars>>

\* json.loads of _stable_json_bytes({"context": canonical}): the document in data.json
_stable_json_bytes(data) == M(Map1("context", data))

StageWriteBundle ==
    /\ bpc = "write_bundle"
    /\ IF bcfg.dry_run
       THEN /\ Emit(<<Event("BundleWriteStarted", "out"),
                      StageCompleted("write_bundle", "skipped"),
                      CommandCompleted(TRUE, 0)>>)
            /\ UNCHANGED bundle
       ELSE IF ~bcfg.write_ok
       THEN /\ Emit(<<Event("StageStarted", "write_bundle"),
                      Event("BundleWriteStarted", "out"),
                      Event("BundleWriteFailed", "out")>> \o Failed("write_bundle"))
            /\ UNCHANGED bundle
       ELSE /\ Emit(<<Event("StageStarted", "write_bundle"),
                      Event("BundleWriteStarted", "out"),
                      StageCompleted("write_bundle", "success"),
                      Event("BundleWritten", "out"),
                      CommandCompleted(TRUE, 0)>>)
            /\ bundle' = Some(_stable_json_bytes(canonical.some))
    /\ bpc' = "done"
    /\ UNCHANGED <<engineVars, bcfg, canonical, dslVars>>

NextBuild ==
    \/ CommandStart
    \/ StageLoadConfig
    \/ StageLoadIntent
    \/ StageFetchSources
    \/ StageNormalize
    \/ StageValidateSchema
    \/ StageWriteBundle

SpecBuild == InitBuild /\ [][NextBuild]_vars

-----------------------------------------------------------------------------
(* Claims about the build driver (SpecBuild).                               *)

NormalizeRan ==
    \E i \in DOMAIN events :
        events[i] \in {StageCompleted("normalize", "success"), Event("StageFailed", "normalize")}

\* the intent and the fetched sources of the project, as the objects the
\* normalize stage receives
FetchedSources == _run_stage_fetch_sources(bcfg).value
ProjectHeap ==
    [intent |-> Intent0, std |-> bcfg.standards.some, exc |-> E, src |-> FetchedSources,
     t0 |-> E, t1 |-> E]

\* the steps applied one after the other, each on the tree the previous one
\* returned, each instance holding the intent and the sources
RECURSIVE PipelineFold(_, _, _)
PipelineFold(h, data, steps) ==
    IF steps = <<>> THEN [h |-> h, out |-> data, err |-> ""]
    ELSE LET self == BuiltinTransform(h, Some(Head(steps).name), Ref("intent"), Ref("src"),
                                      Head(steps).with_)
             res == apply(h, data, self)
         IN IF res.err # "" THEN res ELSE PipelineFold(res.h, res.out, Tail(steps))

SeededHeap == [ProjectHeap EXCEPT !.t0 = canonicalize(ProjectHeap, Ref("intent"), Ref("src"))]
PipelineResult == PipelineFold(SeededHeap, "t0", bcfg.transforms)

AllBuiltin ==
    /\ bcfg.transforms # <<>>
    /\ \A i \in DOMAIN bcfg.transforms :
          /\ bcfg.transforms[i].type = "builtin"
          /\ is_builtin_transform(bcfg.transforms[i].name)

\* C4: in a build, every configured builtin step is applied in declared order,
\* each to the tree the previous step returned, starting from
\* canonicalize(intent, fetched sources): when the steps all succeed the
\* normalize stage succeeds and the context is the result of that fold.
C4_BuildAppliesEveryStep ==
    (NormalizeRan /\ AllBuiltin /\ PipelineResult.err = "") =>
        canonical = Some(Content(PipelineResult.h, Ref(PipelineResult.out)))

\* C5: with canonicalize as the only step, as with no transforms at all, the
\* build's context is {standards: intent.standards, exceptions:
\* intent.exceptions, sources: the fetched sources}.
C5_CanonicalizeOnlyIsNoTransforms ==
    (NormalizeRan /\ bcfg.transforms \in {<<>>, <<CanonicalizeStep>>}) =>
        canonical = Some(M([k \in {"standards", "exceptions", "sources"} |->
                              CASE k = "standards" -> M(bcfg.standards.some)
                                [] k = "exceptions" -> M(E)
                                [] k = "sources" -> M(FetchedSources)]))

Range(seq) == {seq[i] : i \in DOMAIN seq}
LastEvent == events[Len(events)]
BuildEnded == bpc = "done" /\ events[1] = Event("CommandStarted", "build")
\* the stages before validate_schema succeeded and the context they produced
\* satisfies the schema the project's schema file stands for
ContextValid == ~IsNone(canonical) /\ iter_errors(bcfg.schema, canonical.some) = {}

\* C21: when the configured schema is a YAML DSL file, build compiles it,
\* validates the canonical context against the compiled schema and completes
\* with ok=True (the bundle written unless the run is dry or the write fails).
C21_DslSchemaBuildCompletes ==
    (BuildEnded /\ bcfg.schema_file = "dsl" /\ ContextValid /\ bcfg.write_ok) =>
        /\ LastEvent = CommandCompleted(TRUE, 0)
        /\ Event("SchemaValidationPassed", "schema") \in Range(events)

\* the same for a schema file that is a JSON schema
C21_JsonSchemaBuildCompletes ==
    (BuildEnded /\ bcfg.schema_file = "schema" /\ ContextValid /\ bcfg.write_ok) =>
        /\ LastEvent = CommandCompleted(TRUE, 0)
        /\ Event("SchemaValidationPassed", "schema") \in Range(events)

\* a build whose schema is a DSL file fails in validate_schema with SchemaInvalid
C21_DslSchemaRejected ==
    /\ BuildEnded /\ bcfg.schema_file = "dsl" /\ ContextValid
    /\ Event("SchemaInvalid", "dsl") \in Range(events)
    /\ LastEvent = CommandCompleted(FALSE, 2)

-----------------------------------------------------------------------------
(* The validate command (core/validate.py): validate_events, one action per  *)
(* stage.  bcfg is the project on disk and the command line (strict,         *)
(* check_schema); canonical holds the result of _build_candidate_context.    *)

\* a StageFailed whose message a caller reads
StageFailedWith(stage_id, message) == <<"StageFailed", stage_id, message>>

SourceEntry(name, type) == [name |-> name, type |-> type]
ValidateSources ==
    {<<>>,
     <<SourceEntry("inventory", "file")>>,
     <<SourceEntry("inventory", "nope")>>,
     <<SourceEntry("inventory", "")>>}

MountGhostStep ==
    TransformStep("mount", "builtin",
                  [op |-> "mount", source_id |-> "ghost",
                   target |-> CtxPath(<<"inventory">>), strategy |-> NONE])
BadDefaultsStep ==
    TransformStep("defaults", "builtin", DefaultsValues(<<<<<<"env">>, S("dev")>>>>))
MergeSourcesStep ==
    TransformStep("merge", "builtin",
                  [op |-> "merge", target |-> CtxPath(<<>>),
                   from |-> Some(<<PathItem(CtxPath(<<"standards">>)),
                                   PathItem(<<"sources", DOT, "inventory">>)>>),
                   inputs |-> NONE, objects |-> NONE, include_existing |-> NONE])
UnknownNameStep == TransformStep("frobnicate", "builtin", [op |-> "frobnicate"])
EmptyTypeStep == TransformStep("defaults", "", DefaultsValues(<<<<CtxPath(<<"env">>), S("dev")>>>>))

ValidateTransforms ==
    {<<>>,
     <<CanonicalizeStep>>,
     <<DefaultsEnvStep>>,
     <<MountInventoryStep, DefaultsEnvStep>>,
     <<MountGhostStep, DefaultsEnvStep>>,
     <<DefaultsEnvStep, PluginStep, MountInventoryStep>>,
     <<BadDefaultsStep, DefaultsEnvStep>>,
     <<CanonicalizeStep, MergeSourcesStep>>,
     <<UnknownNameStep>>,
     <<EmptyTypeStep>>}

\* a YAML DSL document, with the JSON schema it compiles to
DslFile(schema) == [kind |-> "dsl", schema |-> schema]
StandardsStringSchema ==
    Schema({"standards"}, Put(ObjectProps({"exceptions", "sources"}), "standards", "string"), TRUE)
SourcesStringSchema ==
    Schema({"standards"}, Put(ObjectProps({"standards", "exceptions"}), "sources", "string"), TRUE)
BothStringSchema ==
    Schema({"standards"},
           Put(Put(ObjectProps({"exceptions"}), "standards", "string"), "sources", "string"),
           TRUE)
ValidateSchemaFiles ==
    {NoFile, NotJsonFile, DslFile(ContextSchema), JsonFile(ContextSchema),
     JsonFile(PipelineSchema), JsonFile(StandardsStringSchema), JsonFile(SourcesStringSchema),
     JsonFile(BothStringSchema)}

ValidateProjects ==
    [config_ok : BOOLEAN,
     transforms : ValidateTransforms,
     sources : ValidateSources,
     standards : {NONE, Some(Standards0)},
     schema_file : ValidateSchemaFiles,
     strict : BOOLEAN,
     check_schema : BOOLEAN]

\* the projects that differ in something the run reads
ValidateChoices ==
    {p \in ValidateProjects :
        /\ (~p.config_ok =>
                /\ p.transforms = <<>> /\ p.sources = <<>> /\ p.standards = Some(Standards0)
                /\ p.schema_file = NoFile /\ p.strict /\ p.check_schema)
        /\ (p.schema_file \in {NoFile, NotJsonFile} =>
                /\ p.transforms = <<>> /\ p.sources = <<>> /\ p.standards = Some(Standards0)
                /\ p.check_schema)
        /\ (IsNone(p.standards) => p.transforms = <<>> /\ p.sources = <<>> /\ p.check_schema)
        /\ (~p.check_schema => p.schema_file = JsonFile(ContextSchema))}

InitValidate ==
    /\ heap = [Heap0(E, E) EXCEPT !.intent = E, !.std = E]
    /\ cur = "t0"
    /\ hist = <<>>
    /\ last = NoCall(heap)
    /\ bpc = "validate.start"
    /\ bcfg \in ValidateChoices
    /\ events = <<>>
    /\ canonical = NONE
    /\ bundle = NONE
    /\ IdleDsl

ValidateStart ==
    /\ bpc = "validate.start"
    /\ Emit(<<Event("CommandStarted", "validate")>>)
    /\ bpc' = "validate.load_config"
    /\ UNCHANGED <<engineVars, bcfg, canonical, bundle, dslVars>>

ValidateLoadConfig ==
    /\ bpc = "validate.load_config"
    /\ IF bcfg.config_ok
       THEN /\ Emit(<<Event("StageStarted", "load_config"),
                      StageCompleted("load_config", "success")>>)
            /\ bpc' = "validate.load_schema"
       ELSE /\ Emit(<<Event("StageStarted", "load_config")>> \o Failed("load_config"))
            /\ bpc' = "done"
    /\ UNCHANGED <<engineVars, bcfg, canonical, bundle, dslVars>>

\* _load_schema_raw: load_compiled_schema(..., emit_compiled_artifact=False)
_load_schema_raw(config) == load_compiled_schema(config.schema_file)

ValidateLoadSchema ==
    /\ bpc = "validate.load_schema"
    /\ IF _load_schema_raw(bcfg).err # ""
       THEN /\ Emit(<<Event("StageStarted", "load_schema"),
                      Event("SchemaInvalid", _load_schema_raw(bcfg).err)>>
                    \o Failed("load_schema"))
            /\ bpc' = "done"
       ELSE /\ Emit(<<Event("StageStarted", "load_schema"),
                      Event("SchemaLoaded", "schema"),
                      StageCompleted("load_schema", "success")>>)
            /\ bpc' = "validate.load_intent"
    /\ UNCHANGED <<engineVars, bcfg, canonical, bundle, dslVars>>

ValidateLoadIntent ==
    /\ bpc = "validate.load_intent"
    /\ IF IsNone(bcfg.standards)
       THEN /\ Emit(<<Event("StageStarted", "load_intent")>> \o Failed("load_intent"))
            /\ bpc' = "done"
            /\ UNCHANGED heap
       ELSE /\ Emit(<<Event("StageStarted", "load_intent"),
                      StageCompleted("load_intent", "success")>>)
            /\ bpc' = "validate.resolve_plugins"
            /\ heap' = [heap EXCEPT !.intent = Intent0, !.std = bcfg.standards.some,
                                    !.exc = E]
    /\ UNCHANGED <<cur, hist, last, bcfg, canonical, bundle, dslVars>>

\* plugins/registry.py: the source types that are installed
load_source(kind) == IF kind = "file" THEN "FileSource" ELSE "ValueError"

\* _validate_plugins_events, the loop over config.sources: events and errors
RECURSIVE PluginSources(_, _, _)
PluginSources(sources, strict, acc) ==
    IF sources = <<>> THEN acc
    ELSE LET source == Head(sources) IN
         PluginSources(Tail(sources), strict,
            IF source.type = "" THEN [acc EXCEPT !.errors = @ + 1]
            ELSE IF load_source(source.type) # "ValueError"
            THEN [acc EXCEPT !.events = Append(@, Event("PluginResolved", source.type))]
            ELSE IF strict
            THEN [events |-> Append(acc.events, Event("PluginMissing", source.type)),
                  errors |-> acc.errors + 1]
            ELSE [acc EXCEPT !.events = @ \o <<Event("PluginMissing", source.type),
                                               Event("Warning", "plugin_missing")>>])

\* the loop over config.transforms
RECURSIVE PluginTransforms(_, _, _)
PluginTransforms(transforms, strict, acc) ==
    IF transforms = <<>> THEN acc
    ELSE LET transform == Head(transforms) IN
         PluginTransforms(Tail(transforms), strict,
            IF transform.type = "" THEN [acc EXCEPT !.errors = @ + 1]
            ELSE IF load_transform(transform.type) = "ValueError"
            THEN IF strict
                 THEN [events |-> Append(acc.events, Event("PluginMissing", transform.type)),
                       errors |-> acc.errors + 1]
                 ELSE [acc EXCEPT !.events = @ \o <<Event("PluginMissing", transform.type),
                                                    Event("Warning", "plugin_missing")>>]
            ELSE IF transform.type = "builtin" /\ ~is_builtin_transform(transform.name)
            THEN IF strict
                 THEN [events |-> Append(acc.events, Event("PluginResolved", transform.type)),
                       errors |-> acc.errors + 1]
                 ELSE [acc EXCEPT !.events = @ \o <<Event("PluginResolved", transform.type),
                                                    Event("Warning", "plugin_missing")>>]
            ELSE [acc EXCEPT !.events = Append(@, Event("PluginResolved", transform.type))])

_validate_plugins_events(config, strict) ==
    LET sources == PluginSources(config.sources, strict, [events |-> <<>>, errors |-> 0])
        all == IF config.transforms = <<>>
               THEN IF strict
                    THEN [sources EXCEPT !.events = Append(@, Event("PluginResolved", "builtin"))]
                    ELSE sources
               ELSE PluginTransforms(config.transforms, strict, sources)
    IN [events |-> all.events, failed |-> all.errors > 0]

ValidateResolvePlugins ==
    /\ bpc = "validate.resolve_plugins"
    /\ LET plugin_result == _validate_plugins_events(bcfg, bcfg.strict) IN
       IF plugin_result.failed
       THEN /\ Emit(<<Event("StageStarted", "resolve_plugins")>> \o plugin_result.events
                    \o Failed("resolve_plugins"))
            /\ bpc' = "done"
       ELSE /\ Emit(<<Event("StageStarted", "resolve_plugins")>> \o plugin_result.events
                    \o <<StageCompleted("resolve_plugins",
                                        IF bcfg.strict THEN "success" ELSE "skipped")>>)
            /\ bpc' = "validate.schema_check"
    /\ UNCHANGED <<engineVars, bcfg, canonical, bundle, dslVars>>

\* _contains_source_reference on one string of the options
SourceText(toks) ==
    \/ toks = <<"sources">> \/ StartsWith(toks, "sources")
    \/ toks = <<"context", DOT, "sources">>
    \/ Len(toks) >= 4 /\ SubSeq(toks, 1, 4) = <<"context", DOT, "sources", DOT>>

\* the strings that are values of transform.with_ (the steps of the model hold
\* path strings in mount and merge only)
OptionTexts(options) ==
    IF options.op = "mount" THEN {options.target}
    ELSE IF options.op = "merge" THEN
        {options.target}
        \cup (IF IsNone(options.from) THEN {}
              ELSE {options.from.some[i].text :
                        i \in {j \in DOMAIN options.from.some :
                                   options.from.some[j].kind \in {"path", "str"}}})
    ELSE {}

_transform_references_sources(transform) ==
    \/ transform.type = "builtin" /\ transform.name = "mount" /\ transform.with_.source_id # ""
    \/ \E toks \in OptionTexts(transform.with_) : SourceText(toks)

\* _transform_target_path: with.target of a builtin mount, merge or pick
_transform_target_path(transform) ==
    IF transform.type = "builtin" /\ transform.name \in {"mount", "merge", "pick"}
    THEN Some(transform.with_.target) ELSE NONE

\* _parse_context_path_for_validate: None (here BadPath) for a path that is not
\* a context path; "context." splits into one empty part
_parse_context_path_for_validate(toks) ==
    IF toks = <<"context">> THEN OkPath(<<>>)
    ELSE IF ~StartsWith(toks, "context") THEN BadPath
    ELSE LET parts == Segments(SubSeq(toks, 3, Len(toks)), "") IN
         IF \E i \in DOMAIN parts : parts[i] = "" THEN BadPath ELSE OkPath(parts)

SourceInfluence(root, top_fields) == [root |-> root, top_fields |-> top_fields]

RECURSIVE InfluenceLoop(_, _)
InfluenceLoop(transforms, acc) ==
    IF transforms = <<>> THEN acc
    ELSE LET transform == Head(transforms)
             source_dependent ==
                 \/ _transform_references_sources(transform)
                 \/ transform.type = "builtin" /\ transform.name = "canonicalize"
             target == _transform_target_path(transform)
         IN InfluenceLoop(Tail(transforms),
               IF ~source_dependent THEN acc
               ELSE IF IsNone(target) THEN [acc EXCEPT !.root = TRUE]
               ELSE LET parsed == _parse_context_path_for_validate(target.some) IN
                    IF ~parsed.ok \/ parsed.parts = <<>> THEN [acc EXCEPT !.root = TRUE]
                    ELSE [acc EXCEPT !.top_fields = @ \cup {parsed.parts[1]}])

_detect_source_influence(config) ==
    InfluenceLoop(config.transforms, SourceInfluence(FALSE, {"sources"}))

_transform_error_likely_source_dependent(transform, message) ==
    \/ message = "mount source not found"
    \/ _transform_references_sources(transform)

\* a result that is marked neither failed nor incomplete
UnmarkedResult(h, candidate, failed, incomplete, called) ==
    [h |-> h, candidate |-> candidate, failed |-> FALSE, incomplete |-> FALSE,
     called |-> called]

\* _CandidateBuildResult, with the heap and the names of the steps whose
\* apply was called
CandidateResult(h, candidate, failed, incomplete, called) ==
    [h |-> h, candidate |-> candidate, failed |-> failed, incomplete |-> incomplete,
     called |-> called]

\* the loop of _build_candidate_context; data is the id of `value`
RECURSIVE CandidateLoop(_, _, _, _, _)
CandidateLoop(h, data, transforms, config, called) ==
    IF transforms = <<>> THEN CandidateResult(h, Some(data), FALSE, FALSE, called)
    ELSE LET transform == Head(transforms) IN
         IF load_transform(transform.type) = "ValueError"
         THEN IF config.strict THEN CandidateResult(h, NONE, TRUE, FALSE, called)
              ELSE CandidateResult(h, Some(data), FALSE, TRUE, called)
         ELSE LET instance == BuiltinTransform(h, Some(transform.name), Ref("intent"), Ref("src"),
                                               Put(transform.with_, "schema_path",
                                                   Some(config.schema_file)))
                  Continue(res) ==
                      IF res.err = ""
                      THEN CandidateLoop(res.h, res.out, Tail(transforms), config,
                                         Append(called, transform.name))
                      ELSE IF ~config.strict
                              /\ _transform_error_likely_source_dependent(transform, res.err)
                      THEN CandidateResult(res.h, Some(data), FALSE, TRUE,
                                           Append(called, transform.name))
                      ELSE CandidateResult(res.h, NONE, TRUE, FALSE,
                                           Append(called, transform.name))
              IN Continue(apply(h, data, instance))

\* placeholder_sources = {source.name: {} for source in config.sources}
PlaceholderSources(config) ==
    [name \in {config.sources[i].name : i \in DOMAIN config.sources} |-> M(E)]

_build_candidate_context(h, config) ==
    LET seeded == [h EXCEPT !.src = PlaceholderSources(config),
                            !.t0 = canonicalize(h, Ref("intent"), Ref("src"))]
    IN CandidateLoop(seeded, "t0", config.transforms, config, <<>>)

\* _is_source_related_schema_error: a type error has the key as its path; the
\* errors of required and additionalProperties have the empty path
_is_source_related_schema_error(error, source_influence) ==
    IF error[1] = "type"
    THEN error[2] = "sources" \/ error[2] \in source_influence.top_fields
    ELSE IF error[1] = "required"
    THEN error[2] \in source_influence.top_fields \/ source_influence.root
    ELSE source_influence.root

\* some error, instead of every error, is source related
AnyErrorSourceRelated(errors, source_influence) ==
    \E error \in errors : _is_source_related_schema_error(error, source_influence)

_schema_errors_require_source_data(errors, source_influence) ==
    /\ errors # {}
    /\ \A error \in errors : _is_source_related_schema_error(error, source_influence)

PartialWarning == "Schema requires data from sources; build may succeed only when sources are fetched."

\* _schema_check_events: the events, and the stage's outcome
_schema_check_events(config, candidate_result) ==
    IF candidate_result.failed \/ IsNone(candidate_result.candidate)
    THEN [events |-> <<>>, failed |-> TRUE, status |-> "failed",
          message |-> "Failed to assemble schema candidate context."]
    ELSE LET schema == _load_schema_raw(config).val
             candidate == Content(candidate_result.h, Ref(candidate_result.candidate.some))
             errors == iter_errors(schema, candidate)
             source_related ==
                 \/ _schema_errors_require_source_data(errors, _detect_source_influence(config))
                 \/ candidate_result.incomplete
         IN IF errors = {}
            THEN [events |-> <<Event("SchemaValidationPassed", "schema")>>, failed |-> FALSE,
                  status |-> "success", message |-> ""]
            ELSE IF ~source_related
            THEN [events |-> <<Event("SchemaValidationFailed", "schema")>>, failed |-> TRUE,
                  status |-> "failed", message |-> "Schema validation failed."]
            ELSE IF config.strict
            THEN [events |-> <<Event("SchemaValidationFailed", "schema")>>, failed |-> TRUE,
                  status |-> "failed", message |-> PartialWarning]
            ELSE [events |-> <<Event("Warning", "schema_partial")>>, failed |-> FALSE,
                  status |-> "partial", message |-> ""]

\* the rest of validate_events once the candidate is assembled
SchemaChecked(candidate_result, schema_result) ==
    /\ heap' = candidate_result.h
    /\ cur' = IF IsNone(candidate_result.candidate) THEN cur
              ELSE candidate_result.candidate.some
    /\ hist' = candidate_result.called
    /\ canonical' = Some([candidate |-> candidate_result.candidate,
                          failed |-> candidate_result.failed,
                          incomplete |-> candidate_result.incomplete])
    /\ IF schema_result.failed
       THEN Emit(<<Event("StageStarted", "schema_check")>> \o schema_result.events
                 \o <<StageFailedWith("schema_check", schema_result.message),
                      CommandCompleted(FALSE, 2)>>)
       ELSE Emit(<<Event("StageStarted", "schema_check")>> \o schema_result.events
                 \o <<StageCompleted("schema_check", schema_result.status),
                      CommandCompleted(TRUE, 0)>>)

ValidateSchemaCheck ==
    /\ bpc = "validate.schema_check"
    /\ IF ~bcfg.check_schema
       THEN /\ Emit(<<Event("StageStarted", "schema_check"),
                      StageCompleted("schema_check", "skipped"),
                      CommandCompleted(TRUE, 0)>>)
            /\ UNCHANGED <<heap, cur, hist, canonical>>
       ELSE LET Check(candidate_result) ==
                    SchemaChecked(candidate_result, _schema_check_events(bcfg, candidate_result))
            IN Check(_build_candidate_context(heap, bcfg))
    /\ bpc' = "done"
    /\ UNCHANGED <<last, bcfg, bundle, dslVars>>

NextValidate ==
    \/ ValidateStart
    \/ ValidateLoadConfig
    \/ ValidateLoadSchema
    \/ ValidateLoadIntent
    \/ ValidateResolvePlugins
    \/ ValidateSchemaCheck

SpecValidate == InitValidate /\ [][NextValidate]_vars

-----------------------------------------------------------------------------
(* Claims about the validate command (SpecValidate).                         *)

ValidateEnded == bpc = "done" /\ events[1] = Event("CommandStarted", "validate")
\* the schema check ran on an assembled candidate
CandidateChecked ==
    /\ ValidateEnded /\ ~IsNone(canonical)
    /\ ~canonical.some.failed /\ ~IsNone(canonical.some.candidate)
CandidateErrors == iter_errors(bcfg.schema_file.schema, Content(heap, Ref(cur)))

\* a step that reads source data, and the top-level field it writes (NONE: it
\* writes the root, or somewhere that cannot be told)
StepUsesSources(step) ==
    /\ step.type = "builtin"
    /\ \/ step.name \in {"canonicalize", "mount"}
       \/ /\ step.name = "merge"
          /\ \E i \in DOMAIN step.with_.from.some : step.with_.from.some[i].text[1] = "sources"
StepField(step) ==
    IF step.name \in {"mount", "merge"} /\ WellFormedPath(step.with_.target)
       /\ Len(step.with_.target) >= 3
    THEN Some(step.with_.target[3]) ELSE NONE
SourceSteps == {i \in DOMAIN bcfg.transforms : StepUsesSources(bcfg.transforms[i])}
SourceFields ==
    {"sources"} \cup {StepField(bcfg.transforms[i]).some :
                         i \in {j \in SourceSteps : ~IsNone(StepField(bcfg.transforms[j]))}}
SourceRoot == \E i \in SourceSteps : IsNone(StepField(bcfg.transforms[i]))
\* an error that missing source data explains
Attributable(error) ==
    CASE error[1] = "type" -> error[2] \in SourceFields
      [] error[1] = "required" -> error[2] \in SourceFields \/ SourceRoot
      [] OTHER -> SourceRoot

Tolerated ==
    /\ Event("Warning", "schema_partial") \in Range(events)
    /\ StageCompleted("schema_check", "partial") \in Range(events)
    /\ LastEvent = CommandCompleted(TRUE, 0)
FailedForSources ==
    /\ StageFailedWith("schema_check", PartialWarning) \in Range(events)
    /\ LastEvent = CommandCompleted(FALSE, 2)
SchemaCheckFailed ==
    /\ \E i \in DOMAIN events : events[i][1] = "StageFailed" /\ events[i][2] = "schema_check"
    /\ LastEvent = CommandCompleted(FALSE, 2)

\* C22 as stated: schema errors are tolerated only when every error is
\* attributable to missing source data (non-strict: Warning schema_partial,
\* status partial, ok; strict: the stage fails with the message that sources must
\* be fetched); if any error is not attributable, the schema_check stage fails
\* and the command ends with ok=False in both modes.
C22_ToleratedOnlyIfAttributable ==
    (CandidateChecked /\ CandidateErrors # {}) =>
        IF \A error \in CandidateErrors : Attributable(error)
        THEN IF bcfg.strict THEN FailedForSources ELSE Tolerated
        ELSE SchemaCheckFailed

\* C22 amended: the errors are also tolerated when the candidate is incomplete
\* (non-strict mode only: a transform was not resolved, or failed in a way that
\* depends on sources); with a complete candidate an error that is not
\* attributable fails the stage in both modes.
C22_ToleratedIfAttributableOrIncomplete ==
    (CandidateChecked /\ CandidateErrors # {}) =>
        IF (\A error \in CandidateErrors : Attributable(error)) \/ canonical.some.incomplete
        THEN IF bcfg.strict THEN FailedForSources ELSE Tolerated
        ELSE SchemaCheckFailed

\* a complete candidate with an attributable and a non-attributable error fails,
\* and an incomplete one with a non-attributable error is tolerated
C22_Witness ==
    /\ CandidateChecked /\ ~bcfg.strict
    /\ \E error \in CandidateErrors : ~Attributable(error)
    /\ canonical.some.incomplete
    /\ Tolerated
C22_MixedErrorsFail ==
    /\ CandidateChecked /\ ~canonical.some.incomplete
    /\ \E error \in CandidateErrors : ~Attributable(error)
    /\ \E error \in CandidateErrors : Attributable(error)
    /\ SchemaCheckFailed

-----------------------------------------------------------------------------
(* The init command (core/init.py): init_events, one action per stage.       *)
(* bcfg is the command line and the disk: the target path, the files that    *)
(* exist under it, and how many writes succeed before an OSError.            *)

\* _scaffold_files: the destination paths, in order
_scaffold_files(minimal, with_examples, no_policy) ==
    <<"opactx.yaml", "schema/context.schema.json", "context/standards.yaml">>
    \o (IF ~minimal THEN <<"context/exceptions.yaml", "README.md">> ELSE <<>>)
    \o (IF ~minimal /\ ~no_policy
        THEN <<"policy/README.md">>
             \o (IF with_examples THEN <<"policy/example.rego">> ELSE <<>>)
        ELSE <<>>)
    \o (IF with_examples THEN <<"fixtures/inventory.json">> ELSE <<>>)

\* _plan_actions: (action, destination) per file
_plan_actions(existing, files, force) ==
    [i \in DOMAIN files |->
        <<IF files[i] \in existing THEN (IF force THEN "OVERWRITE" ELSE "SKIP") ELSE "CREATE",
          files[i]>>]

\* the loop of apply_scaffold: FileWritten per action that is not SKIP, until
\* `left` writes have succeeded (NONE: every write succeeds)
RECURSIVE WriteLoop(_, _)
WriteLoop(actions, left) ==
    IF actions = <<>> THEN [events |-> <<>>, failed |-> FALSE]
    ELSE IF Head(actions)[1] = "SKIP" THEN WriteLoop(Tail(actions), left)
    ELSE IF left = Some(0) THEN [events |-> <<>>, failed |-> TRUE]
    ELSE LET rest == WriteLoop(Tail(actions),
                               IF IsNone(left) THEN NONE ELSE Some(left.some - 1))
         IN [events |-> <<Event("FileWritten", Head(actions)[2])>> \o rest.events,
             failed |-> rest.failed]

MaxWrites == 1

InitOptions ==
    [schema : {"jsonschema", "JSONSchema", "openapi", "graphql"},
     target : {"missing", "dir", "file"},
     existing : {{}, {"opactx.yaml", "README.md"}},
     minimal : BOOLEAN, with_examples : BOOLEAN, no_policy : BOOLEAN,
     force : BOOLEAN, dry_run : BOOLEAN,
     writes : {NONE} \cup {Some(n) : n \in 0..MaxWrites}]

\* the command lines that differ in something the run reads
InitChoices ==
    {o \in InitOptions :
        /\ (o.schema \in {"openapi", "graphql"} \/ o.target = "file" =>
                /\ o.existing = {} /\ ~o.minimal /\ ~o.with_examples /\ ~o.no_policy
                /\ ~o.force /\ ~o.dry_run /\ IsNone(o.writes))
        /\ (o.schema = "JSONSchema" =>
                /\ o.target = "missing" /\ ~o.minimal /\ ~o.with_examples /\ ~o.no_policy
                /\ ~o.force /\ ~o.dry_run /\ IsNone(o.writes))
        /\ (o.target # "dir" => o.existing = {} /\ ~o.force)
        /\ (o.dry_run => IsNone(o.writes))
        /\ (o.no_policy => ~o.minimal /\ IsNone(o.writes))}

InitInit ==
    /\ heap = [Heap0(E, E) EXCEPT !.intent = E, !.std = E]
    /\ cur = "t0"
    /\ hist = <<>>
    /\ last = NoCall(heap)
    /\ bpc = "init.start"
    /\ bcfg \in InitChoices
    /\ events = <<>>
    /\ canonical = NONE
    /\ bundle = NONE
    /\ IdleDsl

InitStart ==
    /\ bpc = "init.start"
    /\ Emit(<<Event("CommandStarted", "init")>>)
    /\ bpc' = "init.resolve_target"
    /\ UNCHANGED <<engineVars, bcfg, canonical, bundle, dslVars>>

\* str.lower() of the schema names drawn
Lower(schema) == IF schema = "JSONSchema" THEN "jsonschema" ELSE schema

InitResolveTarget ==
    /\ bpc = "init.resolve_target"
    /\ IF Lower(bcfg.schema) \notin {"jsonschema", "openapi"}
          \/ Lower(bcfg.schema) = "openapi"
          \/ bcfg.target = "file"
       THEN /\ Emit(<<Event("StageStarted", "resolve_target")>> \o Failed("resolve_target"))
            /\ bpc' = "done"
       ELSE /\ Emit(<<Event("StageStarted", "resolve_target")>>
                    \o (IF bcfg.minimal /\ bcfg.with_examples
                        THEN <<Event("Warning", "examples_ignored")>> ELSE <<>>)
                    \o <<StageCompleted("resolve_target", "success")>>)
            /\ bpc' = "init.plan_scaffold"
    /\ UNCHANGED <<engineVars, bcfg, canonical, bundle, dslVars>>

\* files and actions as plan_scaffold computes them (with_examples is dropped
\* when minimal is set)
PlannedActions(options) ==
    _plan_actions(options.existing,
                  _scaffold_files(options.minimal,
                                  options.with_examples /\ ~options.minimal,
                                  options.no_policy),
                  options.force)

InitPlanScaffold ==
    /\ bpc = "init.plan_scaffold"
    /\ LET actions == PlannedActions(bcfg) IN
       Emit(<<Event("StageStarted", "plan_scaffold")>>
            \o [i \in DOMAIN actions |-> Event("FilePlanned", actions[i])]
            \o <<StageCompleted("plan_scaffold", "success")>>)
    /\ bpc' = "init.apply_scaffold"
    /\ UNCHANGED <<engineVars, bcfg, canonical, bundle, dslVars>>

InitApplyScaffold ==
    /\ bpc = "init.apply_scaffold"
    /\ IF bcfg.dry_run
       THEN Emit(<<Event("StageStarted", "apply_scaffold"),
                   StageCompleted("apply_scaffold", "skipped"),
                   CommandCompleted(TRUE, 0)>>)
       ELSE LET Wrote(written) ==
                    IF written.failed
                    THEN Emit(<<Event("StageStarted", "apply_scaffold")>> \o written.events
                              \o <<Event("FileWriteFailed", "project")>>
                              \o Failed("apply_scaffold"))
                    ELSE Emit(<<Event("StageStarted", "apply_scaffold")>> \o written.events
                              \o <<StageCompleted("apply_scaffold", "success"),
                                   CommandCompleted(TRUE, 0)>>)
            IN Wrote(WriteLoop(PlannedActions(bcfg), bcfg.writes))
    /\ bpc' = "done"
    /\ UNCHANGED <<engineVars, bcfg, canonical, bundle, dslVars>>

-----------------------------------------------------------------------------
(* The inspect command (core/inspect.py): inspect_events.  bcfg is the       *)
(* bundle on disk and the pointer; a pointer is a sequence of tokens, "/" or *)
(* a slash-free name.                                                        *)

SLASH == "/"
FileMissing == [file |-> "missing"]
FileInvalid == [file |-> "invalid"]
FileJson(value) == [file |-> "json", value |-> value]

\* _read_json
_read_json(file) ==
    IF file.file = "missing" THEN [err |-> "Missing file", val |-> NULL]
    ELSE IF file.file = "invalid" THEN [err |-> "Invalid JSON", val |-> NULL]
    ELSE [err |-> "", val |-> file.value]

RECURSIVE LStrip(_)
LStrip(toks) == IF toks # <<>> /\ Head(toks) = SLASH THEN LStrip(Tail(toks)) ELSE toks

RECURSIVE SplitSlash(_, _)
SplitSlash(toks, acc) ==
    IF toks = <<>> THEN <<acc>>
    ELSE IF Head(toks) = SLASH THEN <<acc>> \o SplitSlash(Tail(toks), "")
    ELSE SplitSlash(Tail(toks), Head(toks))

\* str.isdigit() and int() of the parts drawn
Digits == [x \in {"0", "1"} |-> IF x = "0" THEN 0 ELSE 1]

RECURSIVE Traverse(_, _)
Traverse(current, parts) ==
    IF parts = <<>> THEN [err |-> "", val |-> current]
    ELSE LET part == Head(parts) IN
         IF IsList(current)
         THEN IF part \notin DOMAIN Digits THEN [err |-> "Expected list index", val |-> NULL]
              ELSE IF Digits[part] >= Len(current.l)
              THEN [err |-> "Index out of range", val |-> NULL]
              ELSE Traverse(current.l[Digits[part] + 1], Tail(parts))
         ELSE IF IsMap(current)
         THEN IF part \notin DOMAIN current.m THEN [err |-> "Key not found", val |-> NULL]
              ELSE Traverse(current.m[part], Tail(parts))
         ELSE [err |-> "Cannot traverse", val |-> NULL]

_extract_pointer(data, pointer) ==
    IF pointer \in {<<>>, <<SLASH>>} THEN [err |-> "", val |-> data]
    ELSE IF Head(pointer) # SLASH THEN [err |-> "Pointer must start with '/'.", val |-> NULL]
    ELSE Traverse(data, SplitSlash(LStrip(pointer), ""))

BundleData ==
    M(Map1("context",
           M(Map2("standards", M(Map1("env", S("dev"))),
                  "exceptions", L(<<S("x")>>)))))
InspectPointers ==
    {NONE, Some(<<>>), Some(<<SLASH>>),
     Some(<<SLASH, "context", SLASH, "standards", SLASH, "env">>),
     Some(<<SLASH, "context", SLASH, "exceptions", SLASH, "0">>),
     Some(<<SLASH, "context", SLASH, "exceptions", SLASH, "1">>),
     Some(<<SLASH, "context", SLASH, "exceptions", SLASH, "env">>),
     Some(<<SLASH, "context", SLASH, "sources">>),
     Some(<<SLASH, "context", SLASH, "standards", SLASH, "env", SLASH, "x">>),
     Some(<<SLASH, "context", SLASH>>),
     Some(<<"context">>)}
InspectBundles ==
    [path : {"missing", "file", "dir"},
     manifest : {FileMissing, FileInvalid, FileJson(M(Map1("revision", S("abc")))),
                 FileJson(L(<<>>))},
     data : {FileMissing, FileInvalid, FileJson(BundleData), FileJson(L(<<S("x")>>))},
     pointer : InspectPointers]
InspectChoices ==
    {b \in InspectBundles :
        /\ (b.path # "dir" =>
                b.manifest = FileMissing /\ b.data = FileMissing /\ IsNone(b.pointer))
        /\ (b.manifest.file # "json" => b.data = FileMissing /\ IsNone(b.pointer))
        /\ (b.data.file # "json" => IsNone(b.pointer))}

InitInspect ==
    /\ heap = [Heap0(E, E) EXCEPT !.intent = E, !.std = E]
    /\ cur = "t0"
    /\ hist = <<>>
    /\ last = NoCall(heap)
    /\ bpc = "inspect.start"
    /\ bcfg \in InspectChoices
    /\ events = <<>>
    /\ canonical = NONE
    /\ bundle = NONE
    /\ IdleDsl

InspectStart ==
    /\ bpc = "inspect.start"
    /\ Emit(<<Event("CommandStarted", "inspect")>>)
    /\ bpc' = "inspect.open_bundle"
    /\ UNCHANGED <<engineVars, bcfg, canonical, bundle, dslVars>>

InspectOpenBundle ==
    /\ bpc = "inspect.open_bundle"
    /\ IF bcfg.path # "dir"
       THEN /\ Emit(<<Event("StageStarted", "open_bundle")>> \o Failed("open_bundle"))
            /\ bpc' = "done"
       ELSE /\ Emit(<<Event("StageStarted", "open_bundle"), Event("BundleOpened", "bundle"),
                      StageCompleted("open_bundle", "success")>>)
            /\ bpc' = "inspect.read_manifest"
    /\ UNCHANGED <<engineVars, bcfg, canonical, bundle, dslVars>>

InspectReadManifest ==
    /\ bpc = "inspect.read_manifest"
    /\ IF _read_json(bcfg.manifest).err # ""
       THEN /\ Emit(<<Event("StageStarted", "read_manifest")>> \o Failed("read_manifest"))
            /\ bpc' = "done"
       ELSE /\ Emit(<<Event("StageStarted", "read_manifest"), Event("ManifestRead", ".manifest"),
                      StageCompleted("read_manifest", "success")>>)
            /\ bpc' = "inspect.read_data"
    /\ UNCHANGED <<engineVars, bcfg, canonical, bundle, dslVars>>

InspectReadData ==
    /\ bpc = "inspect.read_data"
    /\ IF _read_json(bcfg.data).err # ""
       THEN /\ Emit(<<Event("StageStarted", "read_data")>> \o Failed("read_data"))
            /\ bpc' = "done"
       ELSE /\ Emit(<<Event("StageStarted", "read_data"), Event("DataRead", "data.json"),
                      StageCompleted("read_data", "success")>>)
            /\ bpc' = "inspect.summarize_context"
    /\ UNCHANGED <<engineVars, bcfg, canonical, bundle, dslVars>>

\* the keys of ContextSummary: the three top-level keys when the context is a
\* mapping
SummaryKeys(data) ==
    LET context == IF IsMap(data)
                   THEN (IF "context" \in DOMAIN data.m THEN data.m["context"] ELSE NULL)
                   ELSE M(E)
    IN IF IsMap(context) THEN <<"standards", "exceptions", "sources">> ELSE <<>>

InspectSummarizeContext ==
    /\ bpc = "inspect.summarize_context"
    /\ Emit(<<Event("StageStarted", "summarize_context"),
              Event("ContextSummary", SummaryKeys(_read_json(bcfg.data).val)),
              StageCompleted("summarize_context", "success")>>)
    /\ bpc' = "inspect.extract_path"
    /\ UNCHANGED <<engineVars, bcfg, canonical, bundle, dslVars>>

InspectExtractPath ==
    /\ bpc = "inspect.extract_path"
    /\ IF IsNone(bcfg.pointer) \/ bcfg.pointer = Some(<<>>)
       THEN Emit(<<Event("StageStarted", "extract_path"),
                   StageCompleted("extract_path", "skipped"),
                   CommandCompleted(TRUE, 0)>>)
       ELSE IF _extract_pointer(_read_json(bcfg.data).val, bcfg.pointer.some).err # ""
       THEN Emit(<<Event("StageStarted", "extract_path")>> \o Failed("extract_path"))
       ELSE Emit(<<Event("StageStarted", "extract_path"),
                   Event("PathExtracted",
                         _extract_pointer(_read_json(bcfg.data).val, bcfg.pointer.some).val),
                   StageCompleted("extract_path", "success"),
                   CommandCompleted(TRUE, 0)>>)
    /\ bpc' = "done"
    /\ UNCHANGED <<engineVars, bcfg, canonical, bundle, dslVars>>

-----------------------------------------------------------------------------
(* The run-opa command (core/run_opa.py): run_opa_events.  bcfg is the       *)
(* command line, whether the bundle directory exists beforehand, what the    *)
(* nested build does, and what the opa process does.                         *)

\* the lines the two drain threads queue, in the order the loop reads them
OpaOutputs ==
    {<<>>, <<Event("OpaStderr", "listening")>>,
     <<Event("OpaStdout", "ready"), Event("OpaStderr", "error")>>}
\* process.wait(): 0, a failure, or the signal after terminate()
OpaExitCodes == {0, 1, -15}

RunOpaOptions ==
    [bundle_path : BOOLEAN, config_ok : BOOLEAN, skip_build : BOOLEAN,
     build_ok : BOOLEAN, bundle_exists : BOOLEAN, popen_ok : BOOLEAN,
     output : OpaOutputs, exit_code : OpaExitCodes]

\* build_ok is read only when the build runs, and a build succeeds only on a
\* loadable config; the process is read only once it is started
RunOpaChoices ==
    {o \in RunOpaOptions :
        /\ (o.build_ok => ~o.skip_build /\ o.config_ok)
        /\ (~o.popen_ok => o.output = <<>> /\ o.exit_code = 0)
        /\ (o.exit_code = -15 => o.output = <<>>)}

InitRunOpa ==
    /\ heap = [Heap0(E, E) EXCEPT !.intent = E, !.std = E]
    /\ cur = "t0"
    /\ hist = <<>>
    /\ last = NoCall(heap)
    /\ bpc = "run-opa.start"
    /\ bcfg \in RunOpaChoices
    /\ events = <<>>
    /\ canonical = NONE
    /\ bundle = NONE
    /\ IdleDsl

RunOpaStart ==
    /\ bpc = "run-opa.start"
    /\ Emit(<<Event("CommandStarted", "run-opa")>>)
    /\ bpc' = "run-opa.prepare_bundle"
    /\ UNCHANGED <<engineVars, bcfg, canonical, bundle, dslVars>>

\* _resolve_bundle_path: the config is loaded only when no bundle path is given
_resolve_bundle_path(options) ==
    IF options.bundle_path THEN [err |-> "", path |-> "bundle"]
    ELSE IF ~options.config_ok THEN [err |-> "ConfigError", path |-> ""]
    ELSE [err |-> "", path |-> "dist/bundle"]

\* _run_build: the ok of the nested build's CommandCompleted; its events are
\* not passed on
_run_build(options) == options.build_ok

\* resolved_bundle.exists() after the stage: a build that succeeded wrote it
BundleExists(options) ==
    options.bundle_exists \/ (~options.skip_build /\ _run_build(options))

RunOpaPrepareBundle ==
    /\ bpc = "run-opa.prepare_bundle"
    /\ IF _resolve_bundle_path(bcfg).err # ""
       THEN /\ Emit(<<Event("StageStarted", "prepare_bundle")>> \o Failed("prepare_bundle"))
            /\ bpc' = "done"
       ELSE IF ~bcfg.skip_build /\ ~_run_build(bcfg)
       THEN /\ Emit(<<Event("StageStarted", "prepare_bundle")>> \o Failed("prepare_bundle"))
            /\ bpc' = "done"
       ELSE IF ~BundleExists(bcfg)
       THEN /\ Emit(<<Event("StageStarted", "prepare_bundle"),
                      StageCompleted("prepare_bundle", "success")>>
                    \o Failed("prepare_bundle"))
            /\ bpc' = "done"
       ELSE /\ Emit(<<Event("StageStarted", "prepare_bundle"),
                      StageCompleted("prepare_bundle", "success")>>)
            /\ bpc' = "run-opa.start_opa"
    /\ UNCHANGED <<engineVars, bcfg, canonical, bundle, dslVars>>

RunOpaStartOpa ==
    /\ bpc = "run-opa.start_opa"
    /\ IF ~bcfg.popen_ok
       THEN /\ Emit(<<Event("StageStarted", "start_opa"), Event("OpaStartPlanned", "opa run")>>
                    \o Failed("start_opa"))
            /\ bpc' = "done"
       ELSE /\ Emit(<<Event("StageStarted", "start_opa"), Event("OpaStartPlanned", "opa run"),
                      Event("OpaProcessStarted", "pid"),
                      StageCompleted("start_opa", "success")>>)
            /\ bpc' = "run-opa.stream_output"
    /\ UNCHANGED <<engineVars, bcfg, canonical, bundle, dslVars>>

RunOpaStreamOutput ==
    /\ bpc = "run-opa.stream_output"
    /\ Emit(<<Event("StageStarted", "stream_output")>> \o bcfg.output
            \o <<IF bcfg.exit_code = 0 THEN StageCompleted("stream_output", "success")
                 ELSE Event("StageFailed", "stream_output"),
                 Event("OpaProcessExited", bcfg.exit_code),
                 CommandCompleted(bcfg.exit_code = 0, IF bcfg.exit_code = 0 THEN 0 ELSE 2)>>)
    /\ bpc' = "done"
    /\ UNCHANGED <<engineVars, bcfg, canonical, bundle, dslVars>>

-----------------------------------------------------------------------------
(* The five commands together: each behaviour is one run of one command.     *)

InitCommands == InitBuild \/ InitValidate \/ InitInit \/ InitInspect \/ InitRunOpa

NextCommands ==
    \/ NextBuild
    \/ NextValidate
    \/ InitStart
    \/ InitResolveTarget
    \/ InitPlanScaffold
    \/ InitApplyScaffold
    \/ InspectStart
    \/ InspectOpenBundle
    \/ InspectReadManifest
    \/ InspectReadData
    \/ InspectSummarizeContext
    \/ InspectExtractPath
    \/ RunOpaStart
    \/ RunOpaPrepareBundle
    \/ RunOpaStartOpa
    \/ RunOpaStreamOutput

SpecCommands == InitCommands /\ [][NextCommands]_vars

-----------------------------------------------------------------------------
(* Claims about the event streams of the commands (SpecCommands).            *)

CommandEnded == bpc = "done"
CommandOf == events[1][2]
CompletedAt == {i \in DOMAIN events : events[i][1] = "CommandCompleted"}
StageFailedEmitted == \E i \in DOMAIN events : events[i][1] = "StageFailed"

C23_SkippedAndPartialSucceed ==
    /\ CommandEnded
    /\ \E i \in DOMAIN events :
          events[i][1] = "StageCompleted" /\ events[i][3] \in {"skipped", "partial"}
    /\ LastEvent = CommandCompleted(TRUE, 0)

\* core/stages.py
STAGE_ORDER ==
    [c \in {"build", "validate", "init", "inspect", "run-opa"} |->
        CASE c = "build" -> <<"load_config", "load_intent", "fetch_sources", "normalize",
                              "validate_schema", "write_bundle">>
          [] c = "validate" -> <<"load_config", "load_schema", "load_intent",
                                 "resolve_plugins", "schema_check">>
          [] c = "init" -> <<"resolve_target", "plan_scaffold", "apply_scaffold">>
          [] c = "inspect" -> <<"open_bundle", "read_manifest", "read_data",
                                "summarize_context", "extract_path">>
          [] c = "run-opa" -> <<"prepare_bundle", "start_opa", "stream_output">>]

IsTerminal(e) == e[1] \in {"StageCompleted", "StageFailed"}
StartedBefore(stage, i) ==
    \E j \in 1..(i - 1) : events[j][1] = "StageStarted" /\ events[j][2] = stage
CompletedBefore(stage, i) ==
    \E j \in 1..(i - 1) : events[j][1] = "StageCompleted" /\ events[j][2] = stage
\* each terminal event follows a StageStarted of its stage
Bracketed ==
    \A i \in DOMAIN events : IsTerminal(events[i]) => StartedBefore(events[i][2], i)
\* a stage has at most one terminal event
OneTerminal ==
    \A i, j \in DOMAIN events :
        (i # j /\ IsTerminal(events[i]) /\ IsTerminal(events[j])) => events[i][2] # events[j][2]
\* stages start in the order of STAGE_ORDER, each after the previous completed
InStageOrder ==
    \A i \in DOMAIN events :
        events[i][1] = "StageStarted" =>
            LET order == STAGE_ORDER[CommandOf] IN
            \E k \in DOMAIN order :
                /\ order[k] = events[i][2]
                /\ k > 1 => CompletedBefore(order[k - 1], i)

\* C30 as stated: in the event stream of every command each StageCompleted or
\* StageFailed follows a StageStarted of its stage, a stage has at most one
\* terminal event, and stages start in the order of STAGE_ORDER, each only
\* after the previous one completed.
C30_StagesBracketedAndOrdered ==
    events # <<>> => Bracketed /\ OneTerminal /\ InStageOrder

\* the same for validate, init and inspect alone
C30_HoldsOutsideBuildAndRunOpa ==
    (events # <<>> /\ CommandOf \in {"validate", "init", "inspect"}) =>
        Bracketed /\ OneTerminal /\ InStageOrder

\* a dry run of build: write_bundle completes without having started
C30_DryRunNeverStarted ==
    /\ CommandEnded /\ CommandOf = "build"
    /\ StageCompleted("write_bundle", "skipped") \in Range(events)
    /\ ~Bracketed /\ OneTerminal /\ InStageOrder

\* run-opa on a bundle that does not exist: prepare_bundle completes and fails
C30_PrepareBundleTwice ==
    /\ CommandEnded /\ CommandOf = "run-opa"
    /\ Bracketed /\ ~OneTerminal /\ InStageOrder

\* the order itself is kept by all five commands
C30_OrderKept == events # <<>> => InStageOrder

\* the steps of validate's preflight replayed on the engine, up to the first
\* step that cannot be loaded or whose apply raises: the names of the steps
\* applied and why the replay ended
RECURSIVE Replay(_, _, _, _, _)
Replay(h, data, transforms, config, applied) ==
    IF transforms = <<>> THEN [why |-> "end", applied |-> applied]
    ELSE LET transform == Head(transforms)
             Applying(res) ==
                 IF res.err # ""
                 THEN [why |-> "raised", applied |-> Append(applied, transform.name)]
                 ELSE Replay(res.h, res.out, Tail(transforms), config,
                             Append(applied, transform.name))
         IN IF transform.type # "builtin" THEN [why |-> "unresolved", applied |-> applied]
            ELSE Applying(apply(h, data,
                                BuiltinTransform(h, Some(transform.name), Ref("intent"),
                                                 Ref("src"),
                                                 Put(transform.with_, "schema_path",
                                                     Some(config.schema_file)))))
Preflight ==
    Replay([heap EXCEPT !.src = PlaceholderSources(bcfg),
                        !.t0 = canonicalize(heap, Ref("intent"), Ref("src"))],
           "t0", bcfg.transforms, bcfg, <<>>)

\* a step of the build's pipeline that raises: its type is not installed
RaisesInBuild == \E i \in DOMAIN bcfg.transforms : bcfg.transforms[i].type # "builtin"

\* what the validate run shows of a preflight that ended as `replayed`
StoppedAtRaise(replayed) ==
    replayed.why = "raised" =>
        /\ hist' = replayed.applied
        /\ Len(hist') <= Len(bcfg.transforms)
        /\ \/ /\ canonical'.some.failed
              /\ events'[Len(events')] = CommandCompleted(FALSE, 2)
           \/ /\ ~bcfg.strict
              /\ canonical'.some.incomplete /\ ~canonical'.some.failed

\* C28: once a transform step raises, no later configured step is applied.
\* In build the normalize stage fails and neither schema validation nor bundle
\* writing happens; in validate's preflight the assembly stops at the failing
\* step, and the command fails or, in non-strict mode, continues with the
\* candidate marked incomplete.
C28_NothingAfterRaise ==
    [][/\ (bpc = "normalize" /\ RaisesInBuild) =>
              /\ events' = events \o <<Event("StageStarted", "normalize"),
                                       Event("StageFailed", "normalize"),
                                       CommandCompleted(FALSE, 2)>>
              /\ bpc' = "done" /\ IsNone(canonical') /\ IsNone(bundle')
              /\ \A i \in DOMAIN events' :
                    events'[i][1] \in {"StageStarted", "StageCompleted", "StageFailed"}
                        => events'[i][2] \notin {"validate_schema", "write_bundle"}
       /\ (bpc = "validate.schema_check" /\ bcfg.check_schema) => StoppedAtRaise(Preflight)
      ]_vars

\* a build stopped by its first step, with a step configured after it
C28_BuildStopped ==
    /\ BuildEnded /\ bcfg.transforms = <<PluginStep, CanonicalizeStep>>
    /\ \E i \in DOMAIN events : events[i] = Event("StageFailed", "normalize")
    /\ IsNone(bundle)

\* a non-strict validate whose first step raised for want of source data: the
\* second step was not applied and the candidate is marked incomplete
C28_Witness ==
    /\ ValidateEnded /\ ~bcfg.strict
    /\ bcfg.transforms = <<MountGhostStep, DefaultsEnvStep>>
    /\ hist = <<"mount">>
    /\ ~IsNone(canonical) /\ canonical.some.incomplete
    /\ "env" \notin DOMAIN Content(heap, Ref(cur)).m

\* a validate that failed at a raising step
C28_ValidateFailed ==
    /\ ValidateEnded /\ bcfg.transforms = <<BadDefaultsStep, DefaultsEnvStep>>
    /\ hist = <<"defaults">>
    /\ canonical.some.failed /\ LastEvent = CommandCompleted(FALSE, 2)

-----------------------------------------------------------------------------
(* The schema DSL compiler (schema/dsl.py).                                  *)
(* A node is a record of its keys, NONE for a key that is absent; `fields`   *)
(* and `definitions` are sequences of [name, node]: dicts in insertion order. *)
(* A $ref string is the pair <<prefix, name>>.                               *)

_DSL_VERSION == "opactx.schema/v1"
_DRAFT_2020_12 == "https://json-schema.org/draft/2020-12/schema"

ObjectNode(fields, strict, allow_empty_object, required) ==
    [type |-> "object", fields |-> fields, strict |-> strict,
     allow_empty_object |-> allow_empty_object, required |-> required, default |-> NONE]
ArrayNode(items, required) ==
    [type |-> "array", items |-> items, required |-> required, default |-> NONE]
StringNode(required, default) ==
    [type |-> "string", required |-> required, default |-> default]
RefNode(ref, required) ==
    [type |-> "$ref", ref |-> ref, required |-> required, default |-> NONE]
\* a node of a scalar type with its nullable, default, examples and enum keys
TypedNode(type, nullable, default, examples, enum) ==
    [type |-> type, required |-> NONE, nullable |-> nullable, default |-> default,
     examples |-> examples, enum |-> enum]
Field(name, node) == [name |-> name, node |-> node]
HasRef(node) == node.type = "$ref"

Names(entries) == {entries[i].name : i \in DOMAIN entries}
Lookup(entries, name) == (CHOOSE i \in DOMAIN entries : entries[i].name = name)

SchemaDslError(message, detail) == [err |-> message, detail |-> detail, out |-> NONE]
Returned(out) == [err |-> "", detail |-> <<>>, out |-> out]

\* _definition_ref_name: the name a $ref string points to, or the error
_definition_ref_name(ref) ==
    IF ref[1] \notin {"#/definitions/", "#/$defs/"}
    THEN SchemaDslError("$ref must use #/definitions/<Name> (or #/$defs/<Name>)", <<>>)
    ELSE IF ref[2] = "" THEN SchemaDslError("$ref target is invalid", <<>>)
    ELSE Returned(ref[2])

\* _collect_refs: [err, out] with out the set of names referenced
RECURSIVE _collect_refs(_)
RECURSIVE CollectFields(_, _)
CollectFields(fields, refs) ==
    IF fields = <<>> THEN Returned(refs)
    ELSE LET sub == _collect_refs(Head(fields).node) IN
         IF sub.err # "" THEN sub ELSE CollectFields(Tail(fields), refs \cup sub.out)

_collect_refs(node) ==
    IF HasRef(node) THEN
        LET ref_name == _definition_ref_name(node.ref) IN
        IF ref_name.err # "" THEN ref_name ELSE Returned({ref_name.out})
    ELSE IF node.type = "object" THEN
        CollectFields(IF IsNone(node.fields) THEN <<>> ELSE node.fields.some, {})
    ELSE IF node.type = "array" THEN
        IF IsNone(node.items) THEN Returned({}) ELSE _collect_refs(node.items.some)
    ELSE Returned({})

\* the top-level checks of compile_context_schema, up to _validate_references
\* str.strip() of the texts used: blank, padded with a space on both sides, or bare
StripText(text) ==
    IF text = "  " THEN ""
    ELSE IF text = " Policy Context " THEN "Policy Context"
    ELSE IF text = " Canonical context " THEN "Canonical context"
    ELSE IF text = " context " THEN "context"
    ELSE text
TopLevelError(document) ==
    IF document.unknown_keys # {} THEN "root has unknown keys"
    ELSE IF document.dsl # _DSL_VERSION THEN "Unsupported schema DSL version"
    ELSE IF StripText(document.id) = "" THEN "root.id must be a non-empty string."
    ELSE IF StripText(document.title) = "" THEN "root.title must be a non-empty string."
    ELSE IF StripText(document.description) = ""
    THEN "root.description must be a non-empty string."
    ELSE IF StripText(document.root) = "" THEN "root.root must be a non-empty string."
    ELSE IF document.schema.type # "object" THEN "root.schema.type must be 'object' in v0.1."
    ELSE IF "" \in Names(document.definitions)
    THEN "Definition names must be non-empty strings."
    ELSE ""

Document(dsl, title, strict, schema, definitions) ==
    [dsl |-> dsl, id |-> "context", title |-> title, description |-> "Canonical context",
     root |-> "context", strict |-> strict, schema |-> schema,
     definitions |-> definitions, unknown_keys |-> {}]

\* sorted(definition_names), for the names used
NameOrder == <<"A", "B", "C", "D", "Z">>
SortedNames(names) == SelectSeq(NameOrder, LAMBDA n : n \in names)

\* a lookup that finds every name
NeverMissing(ref_name, definition_names) == TRUE
\* `ref_name not in definition_names`
IsDefined(ref_name, definition_names) == ref_name \in definition_names

\* the loop of _validate_references over definitions.items(): the graph, or the
\* error with the names one of which it reports
RECURSIVE RefsLoop(_, _, _)
RefsLoop(definitions, definition_names, graph) ==
    IF definitions = <<>> THEN [err |-> "", names |-> {}, graph |-> graph]
    ELSE LET def_name == Head(definitions).name
             refs == _collect_refs(Head(definitions).node)
         IN IF refs.err # "" THEN [err |-> refs.err, names |-> {}, graph |-> graph]
            ELSE LET missing == {r \in refs.out : ~IsDefined(r, definition_names)} IN
                 IF missing # {}
                 THEN [err |-> "Reference not found", names |-> missing, graph |-> graph]
                 ELSE RefsLoop(Tail(definitions), definition_names,
                               Put(graph, def_name, refs.out))

\* _validate_references up to the search: root refs first, then each definition
CollectGraph(schema_node, definitions) ==
    LET definition_names == Names(definitions)
        root_refs == _collect_refs(schema_node)
    IN IF root_refs.err # "" THEN [err |-> root_refs.err, names |-> {}, graph |-> E]
       ELSE LET missing == {r \in root_refs.out : ~IsDefined(r, definition_names)} IN
            IF missing # {}
            THEN [err |-> "Reference not found", names |-> missing, graph |-> E]
            ELSE RefsLoop(definitions, definition_names, E)

\* " -> ".join(cycle)
RECURSIVE JoinArrow(_)
JoinArrow(cycle) ==
    IF Len(cycle) <= 1 THEN cycle
    ELSE <<Head(cycle), "->">> \o JoinArrow(Tail(cycle))

\* the whole stack, from the first definition entered
WholeStack(stack, name) == Append(stack, name)
\* stack[stack.index(name):] + [name]
CyclePath(stack, name) ==
    LET cycle_start == CHOOSE i \in DOMAIN stack :
                           stack[i] = name /\ \A j \in 1..(i - 1) : stack[j] # name
    IN Append(SubSeq(stack, cycle_start, Len(stack)), name)

\* the call dfs(name) up to its loop: raises, returns at once, or opens a frame
DfsCall(d, name) ==
    LET state == IF name \in DOMAIN d.visit_state THEN d.visit_state[name] ELSE 0 IN
    IF state = 1
    THEN [err |-> "Reference cycle detected", detail |-> JoinArrow(CyclePath(d.stack, name)),
          d |-> d]
    ELSE IF state = 2 THEN [err |-> "", detail |-> <<>>, d |-> d]
    ELSE [err |-> "", detail |-> <<>>,
          d |-> [d EXCEPT !.visit_state = Put(d.visit_state, name, 1),
                          !.stack = Append(d.stack, name),
                          !.frames = Append(d.frames,
                                            IF name \in DOMAIN d.graph THEN d.graph[name]
                                            ELSE {})]]

\* compiled.update(other): the keys of other win
Update(compiled, other) ==
    [k \in DOMAIN compiled \cup DOMAIN other |->
        IF k \in DOMAIN other THEN other[k] ELSE compiled[k]]

\* node.get(key): NONE when the node does not have the key
Opt(node, key) == IF key \in DOMAIN node THEN node[key] ELSE NONE

\* isinstance(value, int), True and False included
IsInstanceInt(value) == IsNumber(value) \/ IsBool(value)

_is_integer(value) == IsNumber(value)
_is_number(value) == IsNumber(value) \/ IsFloat(value)

\* _assert_type: the message of the error raised, "" when it returns
_assert_type(value, node_type, nullable) ==
    IF value = NULL THEN
        (IF nullable \/ node_type = "null" THEN "" ELSE "must not be null.")
    ELSE IF node_type = "object" THEN (IF IsMap(value) THEN "" ELSE "must be an object.")
    ELSE IF node_type = "array" THEN (IF IsList(value) THEN "" ELSE "must be an array.")
    ELSE IF node_type = "string" THEN (IF IsScalar(value) THEN "" ELSE "must be a string.")
    ELSE IF node_type = "number" THEN (IF _is_number(value) THEN "" ELSE "must be a number.")
    ELSE IF node_type = "integer" THEN
        (IF _is_integer(value) THEN "" ELSE "must be an integer.")
    ELSE IF node_type = "boolean" THEN (IF IsBool(value) THEN "" ELSE "must be a boolean.")
    ELSE "must be null."

\* for index, value in enumerate(values): _assert_type(value, ...)
RECURSIVE AssertEach(_, _, _)
AssertEach(values, node_type, nullable) ==
    IF values = <<>> THEN ""
    ELSE LET message == _assert_type(values[1], node_type, nullable) IN
         IF message # "" THEN message ELSE AssertEach(Tail(values), node_type, nullable)

\* node.get("nullable", False)
Nullable(node) == ~IsNone(Opt(node, "nullable")) /\ Opt(node, "nullable").some

\* `if "description" in node: compiled["description"] = description`
WithDescription(compiled, node) ==
    IF IsNone(Opt(node, "description")) THEN compiled
    ELSE Put(compiled, "description", Opt(node, "description").some)

\* the description, default and examples part of _apply_common_keywords
_apply_common_keywords(compiled, node, node_type) ==
    LET default == Opt(node, "default")
        examples == Opt(node, "examples")
        default_error ==
            IF IsNone(default) THEN ""
            ELSE _assert_type(default.some, node_type, Nullable(node))
        examples_error ==
            IF IsNone(examples) THEN ""
            ELSE AssertEach(examples.some, node_type, Nullable(node))
    IN IF default_error # "" THEN SchemaDslError(default_error, <<"default">>)
       ELSE IF examples_error # "" THEN SchemaDslError(examples_error, <<"examples">>)
       ELSE Returned(Update(WithDescription(compiled, node),
                            [default |-> default, examples |-> examples]))

\* the enum part of _compile_string_node and _compile_number_node, and
\* _compile_scalar_enum
_compile_scalar_enum(compiled, node, node_type) ==
    LET enum == Opt(node, "enum") IN
    IF IsNone(enum) THEN Returned(compiled)
    ELSE LET message == AssertEach(enum.some, node_type, Nullable(node)) IN
         IF message # "" THEN SchemaDslError(message, <<"enum">>)
         ELSE Returned(Update(compiled, [enum |-> enum]))

\* the inherited value, whatever the node sets
AlwaysInherited(node, inherited_strict) == inherited_strict
\* node.get("strict", inherited_strict)
OwnOrInherited(node, inherited_strict) ==
    IF IsNone(node.strict) THEN inherited_strict ELSE node.strict.some

\* the name put first
PrependRequired(required_fields, field_name) == <<field_name>> \o required_fields
\* required_fields.append(field_name)
AppendRequired(required_fields, field_name) == Append(required_fields, field_name)

\* a $ref node compiled whatever keys it carries
CompileRefAnyKeys(node, field_context) ==
    LET ref_name == _definition_ref_name(node.ref) IN
    IF ref_name.err # "" THEN ref_name
    ELSE Returned(WithDescription([ref |-> <<"#/$defs/", ref_name.out>>], node))

\* allowed = {"$ref", "description", "deprecated"}, plus "required" in a field
_compile_ref_node(node, field_context) ==
    IF ~IsNone(node.required) /\ ~field_context
    THEN SchemaDslError("has unknown keys", <<"required">>)
    ELSE LET ref_name == _definition_ref_name(node.ref) IN
         IF ref_name.err # "" THEN ref_name
         ELSE Returned(WithDescription([ref |-> <<"#/$defs/", ref_name.out>>], node))

RECURSIVE _compile_node(_, _, _)
RECURSIVE CompileFields(_, _, _, _)

\* the loop of _compile_object_node over fields.items()
CompileFields(fields, strict, properties, required_fields) ==
    IF fields = <<>>
    THEN Returned([properties |-> properties, required_fields |-> required_fields])
    ELSE LET field_name == Head(fields).name
             field_node == Head(fields).node
             field_required ==
                 IF IsNone(field_node.required) THEN FALSE ELSE field_node.required.some
             sub == _compile_node(field_node, strict, TRUE)
         IN IF field_name = ""
            THEN SchemaDslError("fields contains an invalid field name.", <<>>)
            ELSE IF sub.err # "" THEN sub
            ELSE CompileFields(Tail(fields), strict, Put(properties, field_name, sub.out),
                               IF field_required
                               THEN AppendRequired(required_fields, field_name)
                               ELSE required_fields)

_compile_object_node(compiled, node, inherited_strict) ==
    LET allow_empty == node.allow_empty_object
        strict == OwnOrInherited(node, inherited_strict)
        fields == IF IsNone(node.fields) THEN <<>> ELSE node.fields.some
    IN IF IsNone(node.fields) /\ ~allow_empty
       THEN SchemaDslError("fields is required unless allow_empty_object is true.", <<>>)
       ELSE IF fields = <<>> /\ ~allow_empty
       THEN SchemaDslError("fields must not be empty unless allow_empty_object is true.", <<>>)
       ELSE LET loop == CompileFields(fields, strict, E, <<>>) IN
            IF loop.err # "" THEN loop
            ELSE Returned(Update(compiled,
                     [properties |-> loop.out.properties,
                      required |-> IF loop.out.required_fields # <<>>
                                   THEN Some(loop.out.required_fields) ELSE NONE,
                      additionalProperties |-> ~strict]))

_compile_array_node(compiled, node, inherited_strict) ==
    IF IsNone(node.items) THEN SchemaDslError("items is required for arrays.", <<>>)
    ELSE LET items == _compile_node(node.items.some, inherited_strict, FALSE) IN
         IF items.err # "" THEN items
         ELSE Returned(Update(compiled, [items |-> items.out]))

\* the last lines of _compile_node: a nullable node gets the type [type, "null"]
WithNullable(res, node) ==
    IF res.err # "" \/ ~Nullable(node) \/ node.type = "null" THEN res
    ELSE Returned(Update(res.out, [type |-> <<node.type, "null">>]))

_compile_node(node, inherited_strict, field_context) ==
    IF HasRef(node) THEN _compile_ref_node(node, field_context)
    ELSE IF ~IsNone(node.required) /\ ~field_context
    THEN SchemaDslError("has unknown keys", <<"required">>)
    ELSE IF node.type \in {"object", "array"} /\ ~IsNone(Opt(node, "enum"))
    THEN SchemaDslError("has unknown keys", <<"enum">>)
    ELSE LET common == _apply_common_keywords([type |-> node.type], node, node.type) IN
         IF common.err # "" THEN common
         ELSE WithNullable(
                 IF node.type = "object"
                 THEN _compile_object_node(common.out, node, inherited_strict)
                 ELSE IF node.type = "array"
                 THEN _compile_array_node(common.out, node, inherited_strict)
                 ELSE _compile_scalar_enum(common.out, node, node.type),
                 node)

\* no definition is compiled
NoDefinitions(definitions, strict_default, defs) == Returned(defs)

\* the loop of compile_context_schema over definitions.items()
RECURSIVE CompileDefinitions(_, _, _)
CompileDefinitions(definitions, strict_default, defs) ==
    IF definitions = <<>> THEN Returned(defs)
    ELSE LET sub == _compile_node(Head(definitions).node, strict_default, FALSE) IN
         IF sub.err # "" THEN sub
         ELSE CompileDefinitions(Tail(definitions), strict_default,
                                 Put(defs, Head(definitions).name, sub.out))

\* compile_context_schema, lines 119-145
CompileDocument(document) ==
    LET strict_default == IF IsNone(document.strict) THEN TRUE ELSE document.strict.some
        compiled_root == _compile_node(document.schema, strict_default, FALSE)
        defs == CompileDefinitions(document.definitions, strict_default, E)
        compiled ==
            Put(Put(Put([title |-> StripText(document.title),
                         description |-> StripText(document.description)],
                        "$schema", _DRAFT_2020_12),
                    "x-opactx-id", StripText(document.id)),
                "x-opactx-root", StripText(document.root))
    IN IF compiled_root.err # "" THEN compiled_root
       ELSE IF defs.err # "" THEN defs
       ELSE Returned(Update(Update(compiled, compiled_root.out),
                            [defs |-> IF document.definitions # <<>>
                                      THEN Some(defs.out) ELSE NONE]))

(* The documents compiled. *)

MaxRefs == 2
MaxFields == 3

Title == "Policy Context"
Str == StringNode(NONE, NONE)
Ref1(name) == RefNode(<<"#/definitions/", name>>, NONE)
Ref2(name) == RefNode(<<"#/$defs/", name>>, NONE)
Doc(strict, schema, definitions) == Document(_DSL_VERSION, Title, strict, schema, definitions)

\* a body that references the names in refs: one field each, the one to B
\* through an array
RefField(name) ==
    Field(name, IF name = "B" THEN ArrayNode(Some(Ref2(name)), NONE) ELSE Ref1(name))
RefFields(refs) == [i \in DOMAIN SortedNames(refs) |-> RefField(SortedNames(refs)[i])]
GraphBody(refs) == ObjectNode(Some(RefFields(refs)), NONE, TRUE, NONE)

RefSets ==
    {refs \in SUBSET {"A", "B", "C"} : Cardinality(refs) <= MaxRefs} \cup {{"Z"}, {"A", "Z"}}
DefinitionOrders == {<<>>, <<"A">>, <<"B", "A">>, <<"A", "B", "C">>}

GraphDocs ==
    UNION {{Doc(NONE, GraphBody(root_refs),
                [i \in DOMAIN order |-> Field(order[i], GraphBody(refs[order[i]]))]) :
                refs \in [Names([i \in DOMAIN order |-> [name |-> order[i]]]) -> RefSets],
                root_refs \in {{}, {"A"} \cap {order[i] : i \in DOMAIN order}}} :
           order \in DefinitionOrders}

StrictChoices == {NONE, Some(TRUE), Some(FALSE)}
StrictDocs ==
    {Doc(top,
         ObjectNode(Some(<<
             Field("a", ObjectNode(Some(<<
                 Field("b", ArrayNode(Some(ArrayNode(Some(
                     ObjectNode(Some(<<Field("c", Str)>>), s3, FALSE, NONE)), NONE)), NONE))
                 >>), s2, FALSE, NONE)),
             Field("r", Ref1("A"))>>), s1, FALSE, NONE),
         <<Field("A", ObjectNode(Some(<<
             Field("d", ArrayNode(Some(ObjectNode(NONE, NONE, TRUE, NONE)), NONE))
             >>), s4, FALSE, NONE))>>) :
        top \in StrictChoices, s1 \in StrictChoices, s2 \in StrictChoices,
        s3 \in StrictChoices, s4 \in StrictChoices}

FieldNames == {"x", "y", "z"}
FieldOrders ==
    {order \in UNION {[1..n -> FieldNames] : n \in 0..MaxFields} :
        \A i, j \in DOMAIN order : i # j => order[i] # order[j]}
RequiredChoices == {NONE, Some(TRUE), Some(FALSE)}
RequiredField(name, required) ==
    Field(name, IF name = "z" THEN RefNode(<<"#/definitions/", "A">>, required)
                ELSE StringNode(required, NONE))
RequiredDocs ==
    UNION {{Doc(NONE,
                ObjectNode(Some([i \in DOMAIN order |-> RequiredField(order[i], required[i])]),
                           NONE, TRUE, NONE),
                <<Field("A", ObjectNode(Some(<<Field("k", StringNode(Some(TRUE), NONE))>>),
                                        NONE, FALSE, NONE))>>) :
                required \in [DOMAIN order -> RequiredChoices]} :
           order \in FieldOrders}

CycleAB == <<Field("A", GraphBody({"B"})), Field("B", GraphBody({"A"}))>>
BadDefault == StringNode(NONE, Some(N(7)))
OtherDocs ==
    {\* not DSL documents: the top-level shape or a $ref string is wrong
     Document("opactx.schema/v0", Title, NONE, GraphBody({"Z"}), CycleAB),
     Document(_DSL_VERSION, "  ", NONE, GraphBody({}), <<>>),
     [Doc(NONE, GraphBody({}), <<>>) EXCEPT !.unknown_keys = {"extra"}],
     Doc(NONE, ArrayNode(Some(Str), NONE), <<>>),
     Doc(NONE, GraphBody({}), <<Field("", Str)>>),
     Doc(NONE, ObjectNode(Some(<<Field("p", RefNode(<<"#/other/", "A">>, NONE))>>),
                          NONE, FALSE, NONE),
         <<Field("A", GraphBody({"Z"}))>>),
     Doc(NONE, GraphBody({}), <<Field("A", RefNode(<<"#/$defs/", "">>, NONE))>>),
     \* a missing reference together with a cycle and with nodes that do not compile
     Doc(NONE, ObjectNode(Some(<<Field("p", Ref1("Z")), Field("q", BadDefault)>>),
                          NONE, FALSE, NONE), CycleAB),
     Doc(NONE, ObjectNode(Some(<<Field("q", BadDefault)>>), NONE, FALSE, NONE),
         <<Field("A", GraphBody({"A"})),
           Field("B", ObjectNode(Some(<<Field("p", ArrayNode(Some(Ref1("Z")), NONE))>>),
                                 NONE, FALSE, NONE))>>),
     Doc(NONE, ObjectNode(NONE, NONE, FALSE, NONE), <<Field("A", GraphBody({"Z"}))>>),
     \* a diamond: A -> B -> D and A -> C -> D
     Doc(NONE, GraphBody({"A"}),
         <<Field("A", GraphBody({"B", "C"})), Field("B", GraphBody({"D"})),
           Field("C", GraphBody({"D"})), Field("D", GraphBody({}))>>),
     \* nodes that do not compile
     Doc(NONE, ObjectNode(Some(<<Field("q", BadDefault)>>), NONE, FALSE, NONE), <<>>),
     Doc(NONE, ObjectNode(NONE, NONE, FALSE, NONE), <<>>),
     Doc(NONE, ObjectNode(Some(<<>>), NONE, FALSE, NONE), <<>>),
     Doc(NONE, ObjectNode(Some(<<Field("", Str)>>), NONE, FALSE, NONE), <<>>),
     Doc(NONE, ObjectNode(Some(<<Field("p", Str)>>), NONE, FALSE, Some(TRUE)), <<>>),
     Doc(NONE, ObjectNode(Some(<<Field("p", ArrayNode(NONE, NONE))>>), NONE, FALSE, NONE),
         <<>>),
     Doc(NONE, ObjectNode(Some(<<Field("p", ArrayNode(Some(StringNode(Some(TRUE), NONE)),
                                                     NONE))>>), NONE, FALSE, NONE), <<>>),
     Doc(NONE, GraphBody({"A"}), <<Field("A", RefNode(<<"#/$defs/", "A">>, Some(TRUE)))>>),
     Doc(NONE, GraphBody({}),
         <<Field("A", ObjectNode(Some(<<Field("p", StringNode(NONE, Some(NULL)))>>),
                                 NONE, FALSE, NONE))>>),
     Doc(NONE, ObjectNode(Some(<<Field("p", StringNode(NONE, Some(S("dev"))))>>),
                          NONE, FALSE, NONE), <<>>)}

\* documents that differ in their texts and in the keys of the root node
RootBody == ObjectNode(Some(<<Field("p", Str)>>), NONE, FALSE, NONE)
RootNodes ==
    {RootBody,
     Put(RootBody, "description", Some("The root object")),
     Put(RootBody, "nullable", Some(TRUE)),
     Put(RootBody, "nullable", Some(FALSE)),
     Put(Put(RootBody, "description", Some("The root object")), "nullable", Some(TRUE))}
MetaDocs ==
    {[Doc(NONE, root_schema, <<>>) EXCEPT !.id = id, !.title = title,
                                          !.description = description, !.root = root_name] :
        root_schema \in RootNodes,
        id \in {"context", " context ", "  "},
        title \in {Title, " Policy Context "},
        description \in {"Canonical context", " Canonical context ", "  "},
        root_name \in {"context", "data", "  "}}

\* documents with the key `required` on a typed or a $ref node, at the root, in
\* a field, as an array's items, and at the same places of a definition
PlacedNode(kind, required) ==
    IF kind = "$ref" THEN RefNode(<<"#/definitions/", "B">>, required)
    ELSE StringNode(required, NONE)
Fields1(name, node) == ObjectNode(Some(<<Field(name, node)>>), NONE, FALSE, NONE)
PlacedDoc(place, kind, required) ==
    LET node == PlacedNode(kind, required)
        DefB == Field("B", Str)
        UsesA == Fields1("p", Ref1("A"))
    IN CASE place = "root" ->
                Doc(NONE, [Fields1("p", PlacedNode(kind, NONE)) EXCEPT !.required = required],
                    <<DefB>>)
         [] place = "field" -> Doc(NONE, Fields1("p", node), <<DefB>>)
         [] place = "items" -> Doc(NONE, Fields1("p", ArrayNode(Some(node), NONE)), <<DefB>>)
         [] place = "definition" -> Doc(NONE, UsesA, <<Field("A", node), DefB>>)
         [] place = "definition field" ->
                Doc(NONE, UsesA, <<Field("A", Fields1("k", node)), DefB>>)
         [] place = "definition items" ->
                Doc(NONE, UsesA, <<Field("A", ArrayNode(Some(node), NONE)), DefB>>)
PlacedDocs ==
    {PlacedDoc(place, kind, required) :
        place \in {"root", "field", "items", "definition", "definition field",
                   "definition items"},
        kind \in {"string", "$ref"},
        required \in RequiredChoices}

MaxValues == 2

Values == {NULL, S("1"), N(1), F(1), B(TRUE), M(E), L(<<>>)}
ScalarTypes == {"string", "number", "integer", "boolean", "null"}
NullableChoices == {NONE, Some(TRUE), Some(FALSE)}
ValueLists == Seqs(Values, MaxValues)
Given(set) == {Some(x) : x \in set}

TypedNodes ==
    {TypedNode(type, nullable, default, NONE, NONE) :
        type \in ScalarTypes, nullable \in NullableChoices,
        default \in {NONE} \cup Given(Values)}
    \cup {TypedNode(type, nullable, NONE, examples, NONE) :
             type \in ScalarTypes, nullable \in NullableChoices,
             examples \in Given(ValueLists)}
    \cup {TypedNode(type, nullable, NONE, NONE, enum) :
             type \in ScalarTypes, nullable \in NullableChoices, enum \in Given(ValueLists)}
    \cup {TypedNode(type, nullable, Some(default), Some(<<example>>), Some(<<entry>>)) :
             type \in ScalarTypes, nullable \in {NONE, Some(TRUE)},
             default \in Values, example \in Values, entry \in Values}
    \cup {Put(Put([ArrayNode(Some(Str), NONE) EXCEPT !.default = default],
                   "nullable", nullable), "examples", examples) :
             nullable \in NullableChoices, default \in {NONE} \cup Given(Values),
             examples \in {NONE, Some(<<L(<<>>), M(E)>>), Some(<<L(<<S("1")>>)>>)}}
    \cup {Put(Put([ObjectNode(Some(<<Field("q", Str)>>), NONE, FALSE, NONE)
                       EXCEPT !.default = default],
                   "nullable", nullable), "examples", examples) :
             nullable \in NullableChoices, default \in {NONE} \cup Given(Values),
             examples \in {NONE, Some(<<L(<<>>), M(E)>>), Some(<<M(E)>>)}}
    \cup {Put(ObjectNode(Some(<<Field("q", Str)>>), NONE, FALSE, NONE), "enum", Some(<<M(E)>>)),
          Put(ArrayNode(Some(Str), NONE), "enum", Some(<<L(<<>>)>>))}

TypedDocs ==
    {Doc(NONE, ObjectNode(Some(<<Field("p", node)>>), NONE, FALSE, NONE), <<>>) :
        node \in TypedNodes}
    \cup {Doc(NONE, GraphBody({"A"}), <<Field("A", node)>>) :
             node \in {TypedNode(type, NONE, default, NONE, Some(<<S("1"), N(1)>>)) :
                          type \in {"string", "integer"},
                          default \in {NONE, Some(S("1")), Some(N(1))}}}
    \cup {Doc(NONE, ObjectNode(Some(<<Field("p", ArrayNode(Some(node), NONE))>>),
                               NONE, FALSE, NONE), <<>>) :
             node \in {TypedNode("number", nullable, Some(default), NONE, NONE) :
                          nullable \in NullableChoices, default \in Values}}

Documents ==
    GraphDocs \cup StrictDocs \cup RequiredDocs \cup OtherDocs \cup TypedDocs \cup MetaDocs
    \cup PlacedDocs

InitDsl ==
    /\ heap = Heap0(E, E)
    /\ cur = "t0"
    /\ hist = <<>>
    /\ last = NoCall(heap)
    /\ IdleBuild
    /\ doc \in Documents
    /\ dpc = "start"
    /\ dfs = NONE
    /\ result = NONE

Raised(message, detail) ==
    /\ result' = SchemaDslError(message, detail)
    /\ dpc' = "done"

\* compile_context_schema, lines 83-115
CheckTopLevel ==
    /\ dpc = "start"
    /\ IF TopLevelError(doc) # "" THEN Raised(TopLevelError(doc), <<>>)
       ELSE dpc' = "refs" /\ UNCHANGED result
    /\ UNCHANGED <<engineVars, buildVars, doc, dfs>>

\* _validate_references, lines 193-209
ValidateRefs ==
    /\ dpc = "refs"
    /\ LET collected == CollectGraph(doc.schema, doc.definitions) IN
       IF collected.err = "Reference not found"
       THEN /\ \E ref_name \in collected.names : Raised(collected.err, <<ref_name>>)
            /\ UNCHANGED dfs
       ELSE IF collected.err # ""
       THEN Raised(collected.err, <<>>) /\ UNCHANGED dfs
       ELSE /\ dfs' = [graph |-> collected.graph, visit_state |-> E, stack |-> <<>>,
                       frames |-> <<>>, roots |-> SortedNames(Names(doc.definitions))]
            /\ dpc' = "dfs"
            /\ UNCHANGED result
    /\ UNCHANGED <<engineVars, buildVars, doc>>

DfsResult(called) ==
    IF called.err # "" THEN Raised(called.err, called.detail) /\ UNCHANGED dfs
    ELSE dfs' = called.d /\ UNCHANGED <<dpc, result>>

\* for def_name in sorted(definition_names): dfs(def_name)
DfsRoot ==
    /\ dpc = "dfs" /\ dfs.frames = <<>> /\ dfs.roots # <<>>
    /\ DfsResult(DfsCall([dfs EXCEPT !.roots = Tail(dfs.roots)], Head(dfs.roots)))
    /\ UNCHANGED <<engineVars, buildVars, doc>>

\* for target in graph.get(name, set()): dfs(target), in the order the set gives
DfsDescend ==
    /\ dpc = "dfs" /\ dfs.frames # <<>>
    /\ LET top == Len(dfs.frames) IN
       \E target \in dfs.frames[top] :
           DfsResult(DfsCall([dfs EXCEPT !.frames[top] = dfs.frames[top] \ {target}], target))
    /\ UNCHANGED <<engineVars, buildVars, doc>>

\* stack.pop(); visit_state[name] = 2
DfsReturn ==
    /\ dpc = "dfs" /\ dfs.frames # <<>> /\ dfs.frames[Len(dfs.frames)] = {}
    /\ LET name == dfs.stack[Len(dfs.stack)] IN
       dfs' = [dfs EXCEPT !.visit_state = Put(dfs.visit_state, name, 2),
                          !.stack = SubSeq(dfs.stack, 1, Len(dfs.stack) - 1),
                          !.frames = SubSeq(dfs.frames, 1, Len(dfs.frames) - 1)]
    /\ UNCHANGED <<engineVars, buildVars, doc, dpc, result>>

DfsFinish ==
    /\ dpc = "dfs" /\ dfs.frames = <<>> /\ dfs.roots = <<>>
    /\ dpc' = "compile"
    /\ UNCHANGED <<engineVars, buildVars, doc, dfs, result>>

\* compile_context_schema, lines 119-145
Compile ==
    /\ dpc = "compile"
    /\ result' = CompileDocument(doc)
    /\ dpc' = "done"
    /\ UNCHANGED <<engineVars, buildVars, doc, dfs>>

NextDsl ==
    \/ CheckTopLevel
    \/ ValidateRefs
    \/ DfsRoot
    \/ DfsDescend
    \/ DfsReturn
    \/ DfsFinish
    \/ Compile

SpecDsl == InitDsl /\ [][NextDsl]_vars

-----------------------------------------------------------------------------
(* Claims about the schema DSL compiler (SpecDsl).                           *)

Done == dpc = "done"
Compiled == Done /\ result.err = ""

\* the nodes of a tree, by path: a field name per object level, "[]" per array level
RECURSIVE NodePaths(_)
NodePaths(node) ==
    {<<>>}
    \cup (IF node.type = "object" /\ ~IsNone(node.fields)
          THEN UNION {{<<node.fields.some[i].name>> \o p :
                          p \in NodePaths(node.fields.some[i].node)} :
                      i \in DOMAIN node.fields.some}
          ELSE {})
    \cup (IF node.type = "array" /\ ~IsNone(node.items)
          THEN {<<"[]">> \o p : p \in NodePaths(node.items.some)}
          ELSE {})

RECURSIVE NodeAt(_, _)
NodeAt(node, path) ==
    IF path = <<>> THEN node
    ELSE IF Head(path) = "[]" THEN NodeAt(node.items.some, Tail(path))
    ELSE NodeAt(node.fields.some[Lookup(node.fields.some, Head(path))].node, Tail(path))

RECURSIVE CompiledAt(_, _)
CompiledAt(compiled, path) ==
    IF path = <<>> THEN compiled
    ELSE IF Head(path) = "[]" THEN CompiledAt(compiled.items, Tail(path))
    ELSE CompiledAt(compiled.properties[Head(path)], Tail(path))

\* the names the $ref nodes of a tree point to
RefNamesIn(node) ==
    {NodeAt(node, p).ref[2] : p \in {q \in NodePaths(node) : HasRef(NodeAt(node, q))}}

DefinitionNames == Names(doc.definitions)
DefinitionBody(name) == doc.definitions[Lookup(doc.definitions, name)].node
AllRefNames ==
    RefNamesIn(doc.schema) \cup UNION {RefNamesIn(DefinitionBody(n)) : n \in DefinitionNames}

\* a DSL document: the top-level shape is right and every $ref string is well formed
IsDslDocument ==
    /\ TopLevelError(doc) = ""
    /\ _collect_refs(doc.schema).err = ""
    /\ \A n \in DefinitionNames : _collect_refs(DefinitionBody(n)).err = ""

\* the definition-to-definition reference graph
Edge(a, b) == a \in DefinitionNames /\ b \in RefNamesIn(DefinitionBody(a))
Successors(names) == {b \in DefinitionNames : \E a \in names : Edge(a, b)}
RECURSIVE ReachSet(_)
ReachSet(names) ==
    IF Successors(names) \subseteq names THEN names
    ELSE ReachSet(names \cup Successors(names))
HasCycle == \E n \in DefinitionNames : n \in ReachSet(Successors({n}))

\* the names of a path joined with "->"
SplitArrow(text) == [i \in 1..((Len(text) + 1) \div 2) |-> text[2 * i - 1]]
ReportedCycle == SplitArrow(result.detail)
CycleReported == Done /\ result.err = "Reference cycle detected"

\* C6: for a DSL document whose references all resolve, "Reference cycle
\* detected" is raised if and only if the definition graph has a cycle, and
\* the reported path is a cycle of that graph from a name back to itself.
C6_CycleReportedIffCyclic ==
    (Done /\ IsDslDocument /\ AllRefNames \subseteq DefinitionNames) =>
        /\ CycleReported <=> HasCycle
        /\ CycleReported =>
              /\ Len(result.detail) = 2 * Len(ReportedCycle) - 1
              /\ \A i \in DOMAIN result.detail : (i % 2 = 0) => result.detail[i] = "->"
              /\ Len(ReportedCycle) >= 2
              /\ ReportedCycle[1] = ReportedCycle[Len(ReportedCycle)]
              /\ \A i \in 1..(Len(ReportedCycle) - 1) :
                    Edge(ReportedCycle[i], ReportedCycle[i + 1])

\* a cycle between B and C found on the way from A: the reported path leaves A out
C6_Witness ==
    /\ CycleReported /\ IsDslDocument
    /\ ReportedCycle \in {<<"B", "C", "B">>, <<"C", "B", "C">>}
    /\ Edge("A", "B")

HasMissingRef == ~(AllRefNames \subseteq DefinitionNames)

\* C7: for a DSL document with a $ref to a name that is not in definitions, no
\* schema is ever returned: "Reference not found" is raised, naming a missing
\* definition, before the cycle search starts and before any node is compiled.
C7_MissingRefRaisedFirst ==
    (IsDslDocument /\ HasMissingRef) =>
        /\ dfs = NONE
        /\ dpc \in {"start", "refs", "done"}
        /\ IF Done
           THEN /\ result.err = "Reference not found"
                /\ result.detail[1] \in AllRefNames \ DefinitionNames
           ELSE result = NONE

\* a missing reference in a document that also has a cycle and a node that
\* does not compile
C7_Witness ==
    /\ Done /\ IsDslDocument /\ HasMissingRef /\ HasCycle
    /\ CompileDocument(doc).err # ""
    /\ result.err = "Reference not found"

\* the trees of the document with what each compiled to
TopStrict == IF IsNone(doc.strict) THEN TRUE ELSE doc.strict.some
Trees == {[node |-> doc.schema, compiled |-> result.out]}
         \cup {[node |-> DefinitionBody(n), compiled |-> result.out.defs.some[n]] :
                  n \in DefinitionNames}
ObjectPaths(node) == {p \in NodePaths(node) : NodeAt(node, p).type = "object"}

\* the own strict of the node, else that of the nearest enclosing object node
\* that sets one, else the top-level strict
EffectiveStrict(tree, path) ==
    LET setters == {i \in 0..Len(path) :
                       LET n == NodeAt(tree, SubSeq(path, 1, i))
                       IN n.type = "object" /\ ~IsNone(n.strict)}
    IN IF setters = {} THEN TopStrict
       ELSE LET nearest == CHOOSE i \in setters : \A j \in setters : j <= i
            IN NodeAt(tree, SubSeq(path, 1, nearest)).strict.some

\* C8: every object node compiles to additionalProperties false exactly when
\* its effective strict is true (own strict, else the nearest enclosing object
\* that sets it, through array items, else the top-level strict); definition
\* bodies start from the top-level strict.
C8_AdditionalPropertiesIsNotStrict ==
    Compiled =>
        \A t \in Trees : \A p \in ObjectPaths(t.node) :
            CompiledAt(t.compiled, p).additionalProperties = ~EffectiveStrict(t.node, p)

\* an object under two arrays that sets no strict and inherits, through them,
\* a strict that differs from the top-level one
C8_Witness ==
    /\ Compiled
    /\ \E p \in ObjectPaths(doc.schema) :
          /\ IsNone(NodeAt(doc.schema, p).strict)
          /\ \E i \in DOMAIN p : p[i] = "[]"
          /\ EffectiveStrict(doc.schema, p) # TopStrict
          /\ CompiledAt(result.out, p).additionalProperties = TopStrict

\* the names of the fields with required: true, in declared order
DeclaredRequired(node) ==
    LET fields == IF IsNone(node.fields) THEN <<>> ELSE node.fields.some
        marked == SelectSeq(fields, LAMBDA f : f.node.required = Some(TRUE))
    IN [i \in DOMAIN marked |-> marked[i].name]

\* C9: every compiled object node lists in `required` exactly the fields with
\* required: true, in declared order; `required` is omitted when there is
\* none; every name in it is a key of the node's properties.
C9_RequiredInDeclaredOrder ==
    Compiled =>
        \A t \in Trees : \A p \in ObjectPaths(t.node) :
            LET compiled == CompiledAt(t.compiled, p)
                declared == DeclaredRequired(NodeAt(t.node, p))
            IN /\ compiled.required = IF declared = <<>> THEN NONE ELSE Some(declared)
               /\ \A i \in DOMAIN declared : declared[i] \in DOMAIN compiled.properties

\* two required fields declared in an order that is not the sorted one, next
\* to a field that is not required
C9_Witness ==
    /\ Compiled
    /\ result.out.required = Some(<<"z", "x">>)
    /\ "y" \in DOMAIN result.out.properties

\* value is of the declared type
Matches(value, type, nullable) ==
    IF value = NULL THEN nullable \/ type = "null"
    ELSE CASE type = "object" -> IsMap(value)
           [] type = "array" -> IsList(value)
           [] type = "string" -> IsScalar(value)
           [] type = "number" -> IsNumber(value) \/ IsFloat(value)
           [] type = "integer" -> IsNumber(value)
           [] type = "boolean" -> IsBool(value)
           [] type = "null" -> FALSE

\* the values a node gives as default, examples entries and enum entries
GivenValues(node) ==
    (IF IsNone(Opt(node, "default")) THEN {} ELSE {node.default.some})
    \cup UNION {IF IsNone(Opt(node, key)) THEN {}
                ELSE {node[key].some[i] : i \in DOMAIN node[key].some} :
                key \in {"examples", "enum"}}
IsNullable(node) == Opt(node, "nullable") = Some(TRUE)
Mismatched(node) ==
    /\ ~HasRef(node)
    /\ \E value \in GivenValues(node) : ~Matches(value, node.type, IsNullable(node))

\* the schema and the definition bodies, each with what it compiled to
AllTrees ==
    Trees \cup {[node |-> DefinitionBody(n), compiled |-> result.out.defs.some[n]] :
                  n \in DefinitionNames}
DocumentNodes ==
    {NodeAt(doc.schema, p) : p \in NodePaths(doc.schema)}
    \cup UNION {{NodeAt(DefinitionBody(n), p) : p \in NodePaths(DefinitionBody(n))} :
                n \in DefinitionNames}
OnlyField == doc.schema.fields.some[1].node

\* C15: compile_context_schema rejects a node whose default, any examples entry
\* or any enum entry does not match the node's declared type: null is accepted
\* only when the node is nullable or of type null, a boolean is not accepted as
\* integer or number, a string is not accepted as integer (integer with default
\* "1" fails with "must be an integer"); when all of them match, they are
\* emitted unchanged.
C15_TypedValuesChecked ==
    Done =>
        /\ (\E node \in DocumentNodes : Mismatched(node)) => result.err # ""
        /\ (/\ doc \in TypedDocs /\ doc.definitions = <<>>
            /\ OnlyField.type = "integer"
            /\ Opt(OnlyField, "default") = Some(S("1")))
           => result.err = "must be an integer."
        /\ Compiled =>
              \A t \in AllTrees : \A p \in NodePaths(t.node) :
                 LET node == NodeAt(t.node, p)
                     compiled == CompiledAt(t.compiled, p)
                 IN ~HasRef(node) =>
                       /\ compiled.default = Opt(node, "default")
                       /\ compiled.examples = Opt(node, "examples")
                       /\ Opt(compiled, "enum") = Opt(node, "enum")

\* the claim's example, an integer whose default is the string "1", rejected
C15_Witness ==
    /\ Done /\ doc \in TypedDocs /\ doc.definitions = <<>>
    /\ OnlyField.type = "integer"
    /\ GivenValues(OnlyField) = {S("1")}
    /\ Opt(OnlyField, "default") = Some(S("1"))
    /\ result.err = "must be an integer."

\* a nullable integer whose default is null and whose examples and enum are
\* integers compiles, and the three are in the compiled node
TypedValuesEmitted ==
    /\ Compiled /\ doc \in TypedDocs /\ doc.definitions = <<>>
    /\ OnlyField.type = "integer" /\ IsNullable(OnlyField)
    /\ result.out.properties.p.default = Some(NULL)
    /\ result.out.properties.p.examples = Some(<<N(1)>>)
    /\ result.out.properties.p.enum = Some(<<N(1)>>)

\* the text a document-level value is compiled to: the value without the
\* spaces around it
Trimmed(text) ==
    IF text \in {"context", " context "} THEN "context"
    ELSE IF text \in {"Policy Context", " Policy Context "} THEN "Policy Context"
    ELSE IF text \in {"Canonical context", " Canonical context "} THEN "Canonical context"
    ELSE text
DocumentValues ==
    /\ result.out.title = Trimmed(doc.title)
    /\ result.out.description = Trimmed(doc.description)
    /\ result.out["x-opactx-id"] = Trimmed(doc.id)
    /\ result.out["x-opactx-root"] = Trimmed(doc.root)
    /\ result.out["$schema"] = "https://json-schema.org/draft/2020-12/schema"
RootHas(key) == ~IsNone(Opt(doc.schema, key))
\* the top-level type is the string "object", not a list of types
TopLevelTypeObject == Len(result.out.type) = Len("object") /\ result.out.type = "object"

\* C25 as stated: for every document that compiles, the compiled schema's
\* title and description are the document's trimmed title and description,
\* x-opactx-id and x-opactx-root the document's id and root, $schema the Draft
\* 2020-12 URI and the top-level type "object"; no attribute of the root
\* schema node replaces these values.
C25_DocumentValuesKept ==
    Compiled => DocumentValues /\ TopLevelTypeObject

\* the same for the documents whose root node has no description and is not
\* nullable
C25_KeptUnlessRootSetsThem ==
    (Compiled /\ ~RootHas("description") /\ ~(RootHas("nullable") /\ Nullable(doc.schema)))
        => DocumentValues /\ TopLevelTypeObject

\* the root node's description replaced the document's
C25_RootDescriptionWins ==
    /\ Compiled /\ RootHas("description")
    /\ result.out.description = "The root object"
    /\ doc.description = "Canonical context"

\* a nullable root node changed the top-level type
C25_RootNullableType ==
    /\ Compiled /\ RootHas("nullable") /\ ~RootHas("description")
    /\ DocumentValues /\ ~TopLevelTypeObject

\* a node is a direct entry of a fields map when its path ends with a field
\* name; the root of a tree and an array's items are not
IsFieldPath(path) == path # <<>> /\ path[Len(path)] # "[]"
CarriesRequired(tree, path) == ~IsNone(NodeAt(tree, path).required)
SourceTrees == {doc.schema} \cup {DefinitionBody(n) : n \in DefinitionNames}
RequiredOutsideFields ==
    \E tree \in SourceTrees : \E path \in NodePaths(tree) :
        CarriesRequired(tree, path) /\ ~IsFieldPath(path)
RequiredOnField ==
    \E tree \in SourceTrees : \E path \in NodePaths(tree) :
        CarriesRequired(tree, path) /\ IsFieldPath(path)

\* the document with every `required` key taken out
RECURSIVE WithoutRequired(_)
WithoutRequired(node) ==
    LET bare == [node EXCEPT !.required = NONE] IN
    IF node.type = "object" /\ ~IsNone(node.fields)
    THEN [bare EXCEPT !.fields =
             Some([i \in DOMAIN node.fields.some |->
                      Field(node.fields.some[i].name,
                            WithoutRequired(node.fields.some[i].node))])]
    ELSE IF node.type = "array" /\ ~IsNone(node.items)
    THEN [bare EXCEPT !.items = Some(WithoutRequired(node.items.some))]
    ELSE bare
DocWithoutRequired ==
    [doc EXCEPT !.schema = WithoutRequired(doc.schema),
                !.definitions = [i \in DOMAIN doc.definitions |->
                                    Field(doc.definitions[i].name,
                                          WithoutRequired(doc.definitions[i].node))]]
\* nothing else is wrong with the document: without its `required` keys it compiles
ValidButForRequired ==
    /\ IsDslDocument /\ AllRefNames \subseteq DefinitionNames /\ ~HasCycle
    /\ CompileDocument(DocWithoutRequired).err = ""

\* C27: the key required is accepted only on nodes that are direct entries of
\* an object's fields map: a typed or $ref node that carries it as the root
\* schema, as an array's items or as the body of a definition is rejected with
\* an "unknown keys" error, and on field nodes it is accepted.
C27_RequiredOnlyOnFields ==
    (Done /\ ValidButForRequired) =>
        IF RequiredOutsideFields
        THEN result.err = "has unknown keys" /\ result.detail = <<"required">>
        ELSE result.err = ""

\* a $ref node with required as the items of an array: rejected
C27_Witness ==
    /\ Done /\ doc = PlacedDoc("items", "$ref", Some(FALSE))
    /\ ValidButForRequired /\ RequiredOutsideFields
    /\ result.err = "has unknown keys"

\* required on a $ref field of a definition: accepted
C27_AcceptedOnField ==
    /\ Compiled /\ RequiredOnField /\ ~RequiredOutsideFields
    /\ \E n \in DefinitionNames : \E path \in NodePaths(DefinitionBody(n)) :
          /\ CarriesRequired(DefinitionBody(n), path)
          /\ HasRef(NodeAt(DefinitionBody(n), path))

\* the $ref values of a compiled schema node, found by walking the compiled
\* schema itself: properties and items
RECURSIVE EmittedRefs(_)
EmittedRefs(compiled) ==
    IF "ref" \in DOMAIN compiled THEN {compiled.ref}
    ELSE (IF "properties" \in DOMAIN compiled
          THEN UNION {EmittedRefs(compiled.properties[k]) : k \in DOMAIN compiled.properties}
          ELSE {})
         \cup (IF "items" \in DOMAIN compiled THEN EmittedRefs(compiled.items) ELSE {})
EmittedDefs == IF IsNone(result.out.defs) THEN E ELSE result.out.defs.some
AllEmittedRefs ==
    EmittedRefs(result.out) \cup UNION {EmittedRefs(EmittedDefs[n]) : n \in DOMAIN EmittedDefs}
\* the prefixes the document's $ref strings were written with
WrittenPrefixes ==
    UNION {{NodeAt(tree, p).ref[1] : p \in {q \in NodePaths(tree) : HasRef(NodeAt(tree, q))}} :
           tree \in SourceTrees}

\* C29: every $ref in a compiled schema resolves inside that schema: for every
\* document that compiles, each emitted $ref is "#/$defs/<Name>", whichever of
\* #/definitions/<Name> and #/$defs/<Name> the document wrote, with <Name> a
\* key of the emitted $defs, and $defs has one compiled entry per definition
\* of the document.
C29_RefsResolveInside ==
    Compiled =>
        /\ \A ref \in AllEmittedRefs : ref[1] = "#/$defs/" /\ ref[2] \in DOMAIN EmittedDefs
        /\ DOMAIN EmittedDefs = DefinitionNames
        /\ {ref[2] : ref \in AllEmittedRefs} = AllRefNames

\* a compiled document that wrote its references both ways, one of them from
\* inside a definition
C29_Witness ==
    /\ Compiled
    /\ WrittenPrefixes = {"#/definitions/", "#/$defs/"}
    /\ Cardinality({ref[2] : ref \in AllEmittedRefs}) >= 2
    /\ \E n \in DOMAIN EmittedDefs : EmittedRefs(EmittedDefs[n]) # {}

====
